---------------------------- MODULE Spec2Model ----------------------------
(***************************************************************************)
(* A model of the resume extractor: the POST /extract handler, the         *)
(* ResumeExtractor pipeline (PDF text / OCR fallback, LLM retry loop with  *)
(* JSON clean-up and repair, validation) and the ResumeEnhancer analysis   *)
(* functions.                                                              *)
(*                                                                         *)
(* Texts are modelled at two granularities:                                *)
(*  - an LLM response is a sequence of lexical tokens (braces, commas,     *)
(*    quoted strings, whitespace, code fences, ...), on which              *)
(*    clean_json_response, json.loads and fix_json_errors are computed;    *)
(*  - an extracted PDF text is a sequence of runs (a word of k characters  *)
(*    or one whitespace character), on which strip, len and clean_text     *)
(*    are computed.                                                        *)
(***************************************************************************)
EXTENDS Integers, Sequences, FiniteSets, TLC

(***************************************************************************)
(* Python values (the result of json.loads, the dictionaries handed        *)
(* around).  Every value is a record of one shape so that any two values   *)
(* can be compared: t is the Python type, s the content of a str, items    *)
(* the elements of a list, keys/vals the entries of a dict in insertion    *)
(* order.                                                                  *)
(***************************************************************************)
PyNone == [t |-> "none", s |-> "", items |-> <<>>, keys |-> <<>>, vals |-> <<>>]

PyStr(x) == [t |-> "str", s |-> x, items |-> <<>>, keys |-> <<>>, vals |-> <<>>]

PyNum(x) == [t |-> "num", s |-> x, items |-> <<>>, keys |-> <<>>, vals |-> <<>>]

PyList(xs) == [t |-> "list", s |-> "", items |-> xs, keys |-> <<>>, vals |-> <<>>]

PyDict(ks, vs) == [t |-> "dict", s |-> "", items |-> <<>>, keys |-> ks, vals |-> vs]

\* The outcome of a call that may raise: it returned val, or raised an
\* exception whose message is err.
Valid(v) == [ok |-> TRUE, val |-> v, err |-> ""]

Invalid(msg) == [ok |-> FALSE, val |-> PyNone, err |-> msg]

\* an instance of a pydantic model: its fields in declaration order
PyModel(ks, vs) == [t |-> "model", s |-> "", items |-> <<>>, keys |-> ks, vals |-> vs]

EmptyDict == PyDict(<<>>, <<>>)

RECURSIVE ToDict(_)
\* BaseModel.dict(): the model and the models nested in it as plain dictionaries
ToDict(v) ==
    CASE v.t = "model" -> PyDict(v.keys, [i \in 1..Len(v.vals) |-> ToDict(v.vals[i])])
      [] v.t = "list"  -> PyList([i \in 1..Len(v.items) |-> ToDict(v.items[i])])
      [] OTHER         -> v

\* k in d
DictHas(d, k) == \E i \in 1..Len(d.keys) : d.keys[i] = k

KeyIndex(d, k) == CHOOSE i \in 1..Len(d.keys) : d.keys[i] = k

\* d.get(k, default)
DictGet(d, k, default) == IF DictHas(d, k) THEN d.vals[KeyIndex(d, k)] ELSE default

\* d[k] = v : an existing key keeps its position, a new key is appended
DictSet(d, k, v) ==
    IF DictHas(d, k)
    THEN PyDict(d.keys, [d.vals EXCEPT ![KeyIndex(d, k)] = v])
    ELSE PyDict(Append(d.keys, k), Append(d.vals, v))

\* Python truthiness: None, "", [], {} and 0 are false
Truthy(v) ==
    CASE v.t = "none" -> FALSE
      [] v.t = "str"  -> v.s # ""
      [] v.t = "num"  -> v.s # "0"
      [] v.t = "list" -> v.items # <<>>
      [] v.t = "dict" -> v.keys # <<>>
      [] OTHER        -> TRUE

(***************************************************************************)
(* Lexical tokens of an LLM response.  k is the kind of the token and v    *)
(* its text:  "p" one of the punctuation characters { } [ ] , :            *)
(*            "ws" one whitespace character, "fence" a code-fence marker, *)
(*            "word" bare letters, "num" a number, "lit" null/true/false,  *)
(*            "dq" a double-quoted string, "sq" a single-quoted string,    *)
(*            "dqa" a double-quoted string holding an apostrophe,          *)
(*            "quote" a lone double quote.                                 *)
(***************************************************************************)
Tok(k, v) == [k |-> k, v |-> v]

LBrace == Tok("p", "{")
RBrace == Tok("p", "}")
LBrack == Tok("p", "[")
RBrack == Tok("p", "]")
Comma  == Tok("p", ",")
Colon  == Tok("p", ":")
Ws     == Tok("ws", " ")
\* the three-backtick marker of a markdown code block
Fence  == Tok("fence", "~~~")
Word(x) == Tok("word", x)
Num(x)  == Tok("num", x)
Null   == Tok("lit", "null")
Dq(x)  == Tok("dq", x)
Sq(x)  == Tok("sq", x)
Dqa(x) == Tok("dqa", x)
Quote  == Tok("quote", "\"")

DropWs(s) ==
    LET n == Len(s)
        firstNonWs == IF \E i \in 1..n : s[i] # Ws
                      THEN CHOOSE i \in 1..n : s[i] # Ws /\ \A j \in 1..(i-1) : s[j] = Ws
                      ELSE n + 1
    IN SubSeq(s, firstNonWs, n)


(***************************************************************************)
(* ResumeExtractor.clean_json_response                                     *)
(***************************************************************************)
RECURSIVE SubJsonFence(_)
\* re.sub(r'```json\s*', '', text)
SubJsonFence(s) ==
    IF s = <<>> THEN <<>>
    ELSE IF Len(s) >= 2 /\ s[1] = Fence /\ s[2] = Word("json")
         THEN SubJsonFence(DropWs(SubSeq(s, 3, Len(s))))
         ELSE <<s[1]>> \o SubJsonFence(Tail(s))

RECURSIVE SubFence(_)
\* re.sub(r'```\s*', '', text)
SubFence(s) ==
    IF s = <<>> THEN <<>>
    ELSE IF s[1] = Fence
         THEN SubFence(DropWs(Tail(s)))
         ELSE <<s[1]>> \o SubFence(Tail(s))

\* text.find(c): the first position of c, 0 when absent (Python's -1)
Find(s, c) ==
    IF \E i \in 1..Len(s) : s[i] = c
    THEN CHOOSE i \in 1..Len(s) : s[i] = c /\ \A j \in 1..(i-1) : s[j] # c
    ELSE 0

\* text.rfind(c): the last position of c, 0 when absent
RFind(s, c) ==
    IF \E i \in 1..Len(s) : s[i] = c
    THEN CHOOSE i \in 1..Len(s) : s[i] = c /\ \A j \in (i+1)..Len(s) : s[j] # c
    ELSE 0

\* a cleaning that leaves the code-fence markers in
CleanWithoutFenceRemoval(text) ==
    LET start_idx == Find(text, LBrace)
        end_idx == RFind(text, RBrace)
    IN IF start_idx # 0 /\ end_idx # 0
       THEN SubSeq(text, start_idx, end_idx)
       ELSE text

clean_json_response(text) ==
    LET t == SubFence(SubJsonFence(text))
        start_idx == Find(t, LBrace)
        end_idx == RFind(t, RBrace)
    IN IF start_idx # 0 /\ end_idx # 0
       THEN SubSeq(t, start_idx, end_idx)   \* text[start_idx:end_idx + 1], empty when end < start
       ELSE t

(***************************************************************************)
(* json.loads on a token sequence: a recursive-descent parser of the JSON  *)
(* grammar.  A result is [ok, val, next]: whether a value was read, the    *)
(* value, and the position after it.                                       *)
(***************************************************************************)
ParseFail == [ok |-> FALSE, val |-> PyNone, next |-> 0]

ParseOk(v, n) == [ok |-> TRUE, val |-> v, next |-> n]

RECURSIVE SkipWs(_, _)
SkipWs(s, i) == IF i <= Len(s) /\ s[i] = Ws THEN SkipWs(s, i + 1) ELSE i

IsStringTok(tok) == tok.k \in {"dq", "dqa"}

RECURSIVE ParseValue(_, _)
RECURSIVE ParsePairs(_, _, _)
RECURSIVE ParseItems(_, _, _)

\* the members of an object, the position i being that of the next key
ParsePairs(s, i, d) ==
    IF i > Len(s) \/ ~IsStringTok(s[i]) THEN ParseFail
    ELSE LET c == SkipWs(s, i + 1)
         IN IF c > Len(s) \/ s[c] # Colon THEN ParseFail
            ELSE LET r == ParseValue(s, SkipWs(s, c + 1))
                 IN IF ~r.ok THEN ParseFail
                    ELSE LET e == SkipWs(s, r.next)
                             d2 == DictSet(d, s[i].v, r.val)
                         IN IF e > Len(s) THEN ParseFail
                            ELSE IF s[e] = RBrace THEN ParseOk(d2, e + 1)
                            ELSE IF s[e] = Comma THEN ParsePairs(s, SkipWs(s, e + 1), d2)
                            ELSE ParseFail

\* the elements of an array, the position i being that of the next element
ParseItems(s, i, xs) ==
    LET r == ParseValue(s, i)
    IN IF ~r.ok THEN ParseFail
       ELSE LET e == SkipWs(s, r.next)
                xs2 == Append(xs, r.val)
            IN IF e > Len(s) THEN ParseFail
               ELSE IF s[e] = RBrack THEN ParseOk(PyList(xs2), e + 1)
               ELSE IF s[e] = Comma THEN ParseItems(s, SkipWs(s, e + 1), xs2)
               ELSE ParseFail

ParseValue(s, i) ==
    IF i > Len(s) THEN ParseFail
    ELSE CASE IsStringTok(s[i]) -> ParseOk(PyStr(s[i].v), i + 1)
           [] s[i].k = "num"    -> ParseOk(PyNum(s[i].v), i + 1)
           [] s[i].k = "lit"    -> ParseOk(PyNone, i + 1)
           [] s[i] = LBrace     ->
                LET j == SkipWs(s, i + 1)
                IN IF j <= Len(s) /\ s[j] = RBrace
                   THEN ParseOk(EmptyDict, j + 1)
                   ELSE ParsePairs(s, j, EmptyDict)
           [] s[i] = LBrack     ->
                LET j == SkipWs(s, i + 1)
                IN IF j <= Len(s) /\ s[j] = RBrack
                   THEN ParseOk(PyList(<<>>), j + 1)
                   ELSE ParseItems(s, j, <<>>)
           [] OTHER             -> ParseFail

\* json.loads(text): [ok |-> FALSE] stands for json.JSONDecodeError
json_loads(text) ==
    LET r == ParseValue(text, SkipWs(text, 1))
    IN IF r.ok /\ SkipWs(text, r.next) > Len(text)
       THEN [ok |-> TRUE, val |-> r.val]
       ELSE [ok |-> FALSE, val |-> PyNone]

(***************************************************************************)
(* ResumeExtractor.fix_json_errors                                         *)
(***************************************************************************)
RECURSIVE ReplaceQuotes(_)
\* json_text.replace("'", '"'): a single-quoted string becomes a double-quoted
\* one; a double-quoted string holding an apostrophe is cut in two by it
ReplaceQuotes(s) ==
    IF s = <<>> THEN <<>>
    ELSE (CASE s[1].k = "sq"  -> <<Dq(s[1].v)>>
            [] s[1].k = "dqa" -> <<Dq(s[1].v), Word("s"), Quote>>
            [] OTHER          -> <<s[1]>>) \o ReplaceQuotes(Tail(s))

RECURSIVE SubTrailingComma(_, _)
\* re.sub(r',\s*X', 'X', text) for the closing character X
SubTrailingComma(s, close) ==
    IF s = <<>> THEN <<>>
    ELSE LET j == SkipWs(s, 2)
         IN IF s[1] = Comma /\ j <= Len(s) /\ s[j] = close
            THEN <<close>> \o SubTrailingComma(SubSeq(s, j + 1, Len(s)), close)
            ELSE <<s[1]>> \o SubTrailingComma(Tail(s), close)

RepairJson(json_text) ==
    SubTrailingComma(SubTrailingComma(ReplaceQuotes(json_text), RBrace), RBrack)

\* a placeholder whose personal_info has no name
ErrorPlaceholderNameless ==
    PyDict(<<"personal_info", "experience", "education", "skills">>,
           << EmptyDict,
              PyList(<<>>),
              PyList(<<>>),
              PyDict(<<"technical", "soft", "languages", "tools">>,
                     <<PyList(<<>>), PyList(<<>>), PyList(<<>>), PyList(<<>>)>>) >>)

\* the minimal structure returned when the repaired text does not parse
ErrorPlaceholder ==
    PyDict(<<"personal_info", "experience", "education", "skills">>,
           << PyDict(<<"name">>, <<PyStr("Error parsing resume")>>),
              PyList(<<>>),
              PyList(<<>>),
              PyDict(<<"technical", "soft", "languages", "tools">>,
                     <<PyList(<<>>), PyList(<<>>), PyList(<<>>), PyList(<<>>)>>) >>)

\* the try block: the repairs, then json.loads
FixAttempt(json_text) ==
    LET r == json_loads(RepairJson(json_text))
    IN IF r.ok THEN Valid(r.val) ELSE Invalid("JSONDecodeError")

\* the function without its except clause
FixWithoutExcept(json_text) == FixAttempt(json_text)

\* the bare except turns any exception of the try block into the placeholder
fix_json_errors(json_text) ==
    LET a == FixAttempt(json_text)
    IN IF a.ok THEN a ELSE Valid(ErrorPlaceholder)


(***************************************************************************)
(* Extracted text.  A text is a sequence of runs: k > 0 is a word of k     *)
(* non-whitespace characters, 0 is one whitespace character (a space or a  *)
(* newline), and k < 0 is a word of -k characters whose first character is *)
(* a lower-case letter followed by an upper-case letter or a '|' (the one  *)
(* place where clean_text inserts a space).                                *)
(***************************************************************************)
Abs(k) == IF k < 0 THEN -k ELSE k

RECURSIVE TextLen(_)
\* len(text)
TextLen(t) == IF t = <<>> THEN 0 ELSE (IF t[1] = 0 THEN 1 ELSE Abs(t[1])) + TextLen(Tail(t))

RECURSIVE LStrip(_)
LStrip(t) == IF t # <<>> /\ t[1] = 0 THEN LStrip(Tail(t)) ELSE t

RECURSIVE RStrip(_)
RStrip(t) == IF t # <<>> /\ t[Len(t)] = 0 THEN RStrip(SubSeq(t, 1, Len(t) - 1)) ELSE t

\* text.strip()
Strip(t) == LStrip(RStrip(t))

RECURSIVE CollapseWs(_)
\* re.sub(r'\s+', ' ', text): every run of whitespace becomes one space
CollapseWs(t) ==
    IF t = <<>> THEN <<>>
    ELSE IF t[1] = 0 THEN <<0>> \o CollapseWs(LStrip(t))
    ELSE <<t[1]>> \o CollapseWs(Tail(t))

RECURSIVE SplitCamel(_)
\* text.replace('|', 'I') followed by re.sub(r'(?<=[a-z])(?=[A-Z])', ' ', text):
\* a space is inserted at each lower-case/upper-case boundary
SplitCamel(t) ==
    IF t = <<>> THEN <<>>
    ELSE (IF t[1] < 0 THEN <<1, 0, (-t[1]) - 1>> ELSE <<t[1]>>) \o SplitCamel(Tail(t))

\* ResumeExtractor.clean_text.  The substitution of \n\s*\n finds nothing to
\* replace, the first substitution having left no newline in the text.
clean_text(text) == Strip(SplitCamel(CollapseWs(text)))

Newline == <<0>>

Space == <<0>>

\* fewer stripped characters than this and the page is sent to OCR
OcrThreshold == 50

\* fewer cleaned characters than this and the PDF is refused
MinTextLen == 100

\* the comparisons with <= in place of <
NeedsOcrInclusive(page_text) == TextLen(Strip(page_text)) <= OcrThreshold

InsufficientTextInclusive(text) == TextLen(Strip(text)) <= MinTextLen

\* len(page_text.strip()) < 50
NeedsOcr(page_text) == TextLen(Strip(page_text)) < OcrThreshold

\* len(text.strip()) < 100
InsufficientText(text) == TextLen(Strip(text)) < MinTextLen

RECURSIVE OcrLineText(_)
\* for word_info in line: page_text += word_info[1][0] + " "
OcrLineText(line) ==
    IF line = <<>> THEN <<>> ELSE <<line[1]>> \o Space \o OcrLineText(Tail(line))

RECURSIVE OcrText(_)
\* the text appended for an OCR result: the words of every non-empty line,
\* each followed by a space, and a newline after the line
OcrText(result) ==
    IF result = <<>> THEN <<>>
    ELSE (IF result[1] # <<>> THEN OcrLineText(result[1]) \o Newline ELSE <<>>)
         \o OcrText(Tail(result))


(***************************************************************************)
(* The pydantic models (Experience, Education, PersonalInfo, Skills,       *)
(* ResumeData).  A validation is [ok, val, err]: on success val is the     *)
(* validated model (every field present, defaults filled in, unknown keys  *)
(* dropped); on failure err is the message of the exception.  A str field  *)
(* accepts a str only.                                                     *)
(***************************************************************************)
\* str.lower() on the date words the validator looks for
Lower(x) ==
    CASE x \in {"Present", "PRESENT", "present", "PreSent"} -> "present"
      [] x \in {"Current", "CURRENT", "current", "cURRENT"} -> "current"
      [] x \in {"Now", "NOW", "now", "nOw"}                 -> "now"
      [] OTHER                                              -> x

\* a validator that compares the value as it is spelled
parse_dates_exact(v) ==
    IF Truthy(v)
    THEN IF v.t # "str"
         THEN Invalid("AttributeError: object has no attribute 'lower'")
         ELSE IF v.s \in {"present", "current", "now"}
              THEN Valid(PyStr("Present"))
              ELSE Valid(v)
    ELSE Valid(v)

\* Experience.parse_dates (a pre-validator of start_date and end_date)
parse_dates(v) ==
    IF Truthy(v)
    THEN IF v.t # "str" THEN Invalid("AttributeError: object has no attribute 'lower'")
         ELSE IF Lower(v.s) \in {"present", "current", "now"}
              THEN Valid(PyStr("Present"))
              ELSE Valid(v)
    ELSE Valid(v)

IsStr(v) == v.t = "str"

IsOptStr(v) == v.t \in {"str", "none"}

\* a list check that does not look at the elements
IsStrListUnchecked(v) == v.t = "list"

\* List[str]
IsStrList(v) == v.t = "list" /\ \A i \in 1..Len(v.items) : IsStr(v.items[i])

IsStrDict(v) == v.t = "dict" /\ \A i \in 1..Len(v.vals) : IsStr(v.vals[i])

RequiredStr(d, k) == DictHas(d, k) /\ IsStr(DictGet(d, k, PyNone))

OptionalStr(d, k) == IsOptStr(DictGet(d, k, PyNone))

StrList(d, k) == IsStrList(DictGet(d, k, PyList(<<>>)))

\* the fields of a model in declaration order, absent ones at their default
Project(d, ks, defaults) ==
    PyModel(ks, [i \in 1..Len(ks) |-> DictGet(d, ks[i], defaults[i])])

ExperienceFields == <<"company", "position", "start_date", "end_date", "location", "responsibilities">>

\* Experience(**x)
ValidateExperience(x) ==
    IF x.t # "dict" THEN Invalid("ValidationError: experience: value is not a valid dict")
    ELSE LET sd == parse_dates(DictGet(x, "start_date", PyNone))
             ed == parse_dates(DictGet(x, "end_date", PyNone))
         IN IF ~sd.ok THEN sd
            ELSE IF ~ed.ok THEN ed
            ELSE LET y == PyModel(ExperienceFields,
                                 << DictGet(x, "company", PyNone), DictGet(x, "position", PyNone),
                                    sd.val, ed.val,
                                    DictGet(x, "location", PyNone),
                                    DictGet(x, "responsibilities", PyList(<<>>)) >>)
                 IN IF /\ RequiredStr(x, "company") /\ RequiredStr(x, "position")
                       /\ OptionalStr(y, "start_date") /\ OptionalStr(y, "end_date")
                       /\ OptionalStr(y, "location") /\ StrList(y, "responsibilities")
                    THEN Valid(y)
                    ELSE Invalid("ValidationError: experience")

\* Education(**x)
ValidateEducation(x) ==
    IF x.t # "dict" THEN Invalid("ValidationError: education: value is not a valid dict")
    ELSE LET ks == <<"institution", "degree", "field_of_study", "start_date", "end_date", "gpa", "location">>
             y == Project(x, ks, [i \in 1..7 |-> PyNone])
         IN IF /\ RequiredStr(x, "institution") /\ RequiredStr(x, "degree")
               /\ \A i \in 3..7 : OptionalStr(y, ks[i])
            THEN Valid(y)
            ELSE Invalid("ValidationError: education")

\* PersonalInfo(**x)
ValidatePersonalInfo(x) ==
    IF x.t # "dict" THEN Invalid("ValidationError: personal_info: value is not a valid dict")
    ELSE LET ks == <<"name", "email", "phone", "location", "linkedin", "github", "website">>
             y == Project(x, ks, [i \in 1..7 |-> PyNone])
         IN IF ~DictHas(x, "name") THEN Invalid("ValidationError: personal_info.name: field required")
            ELSE IF IsStr(y.vals[1]) /\ \A i \in 2..7 : OptionalStr(y, ks[i])
            THEN Valid(y)
            ELSE Invalid("ValidationError: personal_info")

\* Skills(**x)
ValidateSkills(x) ==
    IF x.t # "dict" THEN Invalid("ValidationError: skills: value is not a valid dict")
    ELSE LET ks == <<"technical", "soft", "languages", "tools">>
             y == Project(x, ks, [i \in 1..4 |-> PyList(<<>>)])
         IN IF \A i \in 1..4 : IsStrList(y.vals[i])
            THEN Valid(y)
            ELSE Invalid("ValidationError: skills")

\* a List[Model] field, rs being the validations of the elements of xs in
\* order: the first error wins
ValidateEach(xs, rs, what) ==
    IF xs.t # "list" THEN Invalid(what)
    ELSE IF \E i \in 1..Len(rs) : ~rs[i].ok
         THEN rs[CHOOSE i \in 1..Len(rs) : ~rs[i].ok /\ \A j \in 1..(i-1) : rs[j].ok]
         ELSE Valid(PyList([i \in 1..Len(rs) |-> rs[i].val]))

\* ResumeData(**data)
ValidateResumeData(data) ==
    IF ~DictHas(data, "personal_info")
    THEN Invalid("ValidationError: personal_info: field required")
    ELSE LET pi == ValidatePersonalInfo(DictGet(data, "personal_info", PyNone))
             exs == DictGet(data, "experience", PyList(<<>>))
             eds == DictGet(data, "education", PyList(<<>>))
             ex == ValidateEach(exs, [i \in 1..Len(exs.items) |-> ValidateExperience(exs.items[i])],
                                "ValidationError: experience: value is not a valid list")
             ed == ValidateEach(eds, [i \in 1..Len(eds.items) |-> ValidateEducation(eds.items[i])],
                                "ValidationError: education: value is not a valid list")
             sk == ValidateSkills(DictGet(data, "skills", PyDict(<<>>, <<>>)))
             summary == DictGet(data, "summary", PyNone)
             certs == DictGet(data, "certifications", PyList(<<>>))
             projects == DictGet(data, "projects", PyList(<<>>))
             achievements == DictGet(data, "achievements", PyList(<<>>))
         IN IF ~pi.ok THEN pi
            ELSE IF ~IsOptStr(summary) THEN Invalid("ValidationError: summary")
            ELSE IF ~ex.ok THEN ex
            ELSE IF ~ed.ok THEN ed
            ELSE IF ~sk.ok THEN sk
            ELSE IF ~IsStrList(certs) THEN Invalid("ValidationError: certifications")
            ELSE IF ~(projects.t = "list" /\ \A i \in 1..Len(projects.items) : IsStrDict(projects.items[i]))
                 THEN Invalid("ValidationError: projects")
            ELSE IF ~IsStrList(achievements) THEN Invalid("ValidationError: achievements")
            ELSE Valid(PyModel(<<"personal_info", "summary", "experience", "education",
                                "skills", "certifications", "projects", "achievements">>,
                              <<pi.val, summary, ex.val, ed.val, sk.val, certs, projects, achievements>>))

(***************************************************************************)
(* ResumeExtractor.validate_and_enhance                                    *)
(***************************************************************************)
\* a check that takes every string for an address
HasAtAlways(x) == TRUE

\* strings that contain an '@'
HasAt(x) == x \in {"a@b.c", "@", "john.doe@email.com"}

\* the sort key: x.get('end_date', 'Present') == 'Present'
EndsPresent(x) == DictGet(x, "end_date", PyStr("Present")) = PyStr("Present")

EndsOther(x) == ~EndsPresent(x)

\* sorted(xs, key=EndsPresent, reverse=True): the sort is stable, so the entries
\* whose key is True come first, each group in its original order
SortPresentFirst(xs) == SelectSeq(xs, EndsPresent) \o SelectSeq(xs, EndsOther)

validate_and_enhance(data) ==
    IF data.t \in {"none", "num"}
    THEN Invalid("TypeError: argument is not iterable")
    ELSE IF data.t # "dict"
    THEN Invalid("TypeError: object does not support item assignment")
    ELSE
    LET d1 == IF ~DictHas(data, "personal_info")
              THEN DictSet(data, "personal_info", EmptyDict)
              ELSE data
        pi == DictGet(d1, "personal_info", PyNone)
        email == DictGet(pi, "email", PyNone)
        emailRaises == \/ pi.t \in {"none", "num"}
                       \/ pi.t = "dict" /\ DictHas(pi, "email") /\ email.t = "num" /\ Truthy(email)
        dropEmail == /\ pi.t = "dict" /\ DictHas(pi, "email") /\ Truthy(email)
                     /\ ~(email.t = "str" /\ HasAt(email.s))
        d2 == IF dropEmail
              THEN DictSet(d1, "personal_info", DictSet(pi, "email", PyNone))
              ELSE d1
        exp == DictGet(d2, "experience", PyNone)
        sorts == DictHas(d2, "experience") /\ Truthy(exp)
        sortRaises == sorts /\ (exp.t # "list" \/ \E i \in 1..Len(exp.items) : exp.items[i].t # "dict")
        d3 == IF sorts /\ ~sortRaises
              THEN DictSet(d2, "experience", PyList(SortPresentFirst(exp.items)))
              ELSE d2
    IN IF emailRaises THEN Invalid("TypeError: argument is not iterable")
       ELSE IF sortRaises THEN Invalid("AttributeError: object has no attribute 'get'")
       ELSE ValidateResumeData(d3)


(***************************************************************************)
(* The inputs of the model: file names, uploaded PDFs, LLM responses.      *)
(***************************************************************************)
\* concurrent connections the server is modelled with
NumRequests == 2

Requests == 1..NumRequests

\* file names, as sequences of characters
PdfSuffix == <<".", "p", "d", "f">>

Filenames ==
    { <<"a", ".", "p", "d", "f">>,
      <<".", "p", "d", "f">>,
      <<"a", ".", "P", "D", "F">>,
      <<"a", ".", "p", "d", "f", "x">>,
      <<"p", "d", "f">> }

\* str.endswith
EndsWith(x, suffix) ==
    Len(x) >= Len(suffix) /\ SubSeq(x, Len(x) - Len(suffix) + 1, Len(x)) = suffix

\* A PDF is unreadable (fitz.open raises) or a sequence of pages; a page has
\* its embedded text layer and the lines the OCR engine reads from its image.
Page(layer, lines) == [layer |-> layer, ocr |-> lines]

Pdf(pages) == [readable |-> TRUE, pages |-> pages]

BrokenPdf == [readable |-> FALSE, pages |-> <<>>]

Uploads ==
    { BrokenPdf,
      Pdf(<< Page(<<60, 0, 50>>, <<>>) >>),
      Pdf(<< Page(<<50>>, <<>>) >>),
      Pdf(<< Page(<<-99>>, <<>>) >>),
      Pdf(<< Page(<<0, 49, 0>>, << <<40, 30>>, <<>>, <<-30>> >>), Page(<<50>>, <<>>) >>),
      Pdf(<< Page(<<55>>, <<>>), Page(<<>>, <<>>) >>),
      Pdf(<< Page(<<50>>, <<>>), Page(<<60>>, <<>>) >>) }

\* the errors ollama.chat can end with
ChatErrors == {"ConnectionError: connection refused", "ResponseError: model not found"}

\* {"personal_info": {"name": "Ann", "email": "ann"}, "experience": [...]} in a fenced block
RespFenced ==
    << Fence, Word("json"), Ws,
       LBrace, Dq("personal_info"), Colon, LBrace, Dq("name"), Colon, Dq("Ann"), Comma,
               Dq("email"), Colon, Dq("ann"), RBrace, Comma,
       Dq("experience"), Colon, LBrack,
           LBrace, Dq("company"), Colon, Dq("X"), Comma, Dq("position"), Colon, Dq("Dev"), Comma,
                   Dq("end_date"), Colon, Dq("2020"), RBrace, Comma,
           LBrace, Dq("company"), Colon, Dq("Y"), Comma, Dq("position"), Colon, Dq("Lead"), Comma,
                   Dq("end_date"), Colon, Dq("Present"), RBrace,
       RBrack, RBrace, Ws, Fence >>

\* {'personal_info': {'name': 'Bob',},} : single quotes and trailing commas
RespRepairable ==
    << Word("Here"), Ws, LBrace, Sq("personal_info"), Colon, Ws, LBrace, Sq("name"), Colon, Sq("Bob"),
       Comma, RBrace, Comma, Ws, RBrace >>

\* prose without any JSON
RespProse == << Word("Sorry"), Ws, Word("no") >>

\* a JSON array
RespList == << LBrack, Num("1"), RBrack >>

\* a JSON object without personal_info
RespNoInfo == << LBrace, Dq("summary"), Colon, Dq("x"), RBrace >>

ResponseSamples == {RespFenced, RespRepairable, RespProse, RespList, RespNoInfo}

(***************************************************************************)
(* The state.                                                              *)
(***************************************************************************)
VARIABLES
    ocr,        \* the module-level OCR engine: "ready", or "none" when its construction failed
    running,    \* the requests whose handler the event loop is executing
    uploads,    \* the temporary copies of uploaded PDFs that exist (their names)
    images,     \* the page numbers n for which temp_page_<n>.png exists
    pc,         \* per request: the position of its handler
    req,        \* per request: the upload (file name, content)
    frame,      \* per request: the local variables of the handler and of the calls it makes
    response,   \* per request: the response the handler produced
    log,        \* per request: what the handler did so far (history)
    enhancer,   \* the attributes of the ResumeEnhancer instance
    passed,     \* the objects a caller passes to the ResumeEnhancer functions
    given,      \* those objects as they were when the caller built them (history)
    result      \* the last ResumeEnhancer call and what it returned

serverVars == <<ocr, running, uploads, images, pc, req, frame, response, log>>

enhancerVars == <<enhancer, passed, given, result>>

vars == <<ocr, running, uploads, images, pc, req, frame, response, log,
          enhancer, passed, given, result>>

\* the default of extract_with_llm's max_retries
DefaultMaxRetries == 3

NoReq == [filename |-> <<>>, pdf |-> BrokenPdf]

NoFrame ==
    [ tmp_path |-> 0, doc |-> "none", page_num |-> 0, page_text |-> <<>>, text |-> <<>>,
      prompt |-> <<>>, max_retries |-> 0, attempt |-> 0,
      json_bound |-> FALSE, json_text |-> <<>>,
      raw_data |-> PyNone, resume_data |-> PyNone, exc |-> "" ]

NoResponse == [status |-> 0, detail |-> "", body |-> PyNone]

NoLog == [trace |-> <<>>, created |-> 0, chats |-> <<>>, last_content |-> <<>>, pages |-> <<>>]

NoEnhancer == [nlp |-> "none", stop_words |-> {}]

NoPassed ==
    [resume |-> PyNone, resume2 |-> PyNone, job_requirements |-> PyNone, job_description |-> PyNone]

NoGiven == [objects |-> NoPassed, self |-> NoEnhancer]

NoResult == [fn |-> "", prev |-> "", ret |-> PyNone]

\* no ResumeEnhancer is in use
EnhancerIdle ==
    /\ enhancer = NoEnhancer
    /\ passed = NoPassed
    /\ given = NoGiven
    /\ result = NoResult

TmpNames == 1..(NumRequests + 1)

\* tempfile.NamedTemporaryFile: a name no existing file has
FreshName(existing) == CHOOSE n \in TmpNames \ existing : \A m \in TmpNames \ existing : n <= m

\* a handler run in the thread pool, as a plain def would be
EventLoopFreeThreaded(run) == TRUE

\* The handler is a coroutine (async def) without any await: once the event loop
\* has entered it, no other handler runs until it returns.
EventLoopFree(run) == run = {}

\* ResumeExtractor.create_extraction_prompt: the template with the text in it
create_extraction_prompt(resume_text) == <<"extraction-prompt", resume_text>>

Raise(r, msg) == [frame EXCEPT ![r].exc = msg]

Trace(r, event) == [log EXCEPT ![r].trace = Append(@, event)]


(***************************************************************************)
(* POST /extract and the pipeline it runs, one action per step.            *)
(***************************************************************************)
Init ==
    /\ ocr \in {"ready", "none"}
    /\ running = {}
    /\ uploads = {}
    /\ images = {}
    /\ pc = [r \in Requests |-> "idle"]
    /\ req = [r \in Requests |-> NoReq]
    /\ frame = [r \in Requests |-> NoFrame]
    /\ response = [r \in Requests |-> NoResponse]
    /\ log = [r \in Requests |-> NoLog]
    /\ EnhancerIdle

\* a client sends a request
Arrive(r) ==
    /\ pc[r] = "idle"
    /\ pc' = [pc EXCEPT ![r] = "queued"]
    /\ UNCHANGED <<ocr, running, uploads, images, req, frame, response, log, enhancerVars>>

\* a check that forgets the dot of the suffix
AcceptsNoDot(filename) == EndsWith(filename, <<"p", "d", "f">>)

\* the filename check of the handler
Accepts(filename) == EndsWith(filename, PdfSuffix)

\* The handler is entered: the filename check, then the temporary copy.
Begin(r) ==
    /\ pc[r] = "queued"
    /\ EventLoopFree(running)
    /\ \E fn \in Filenames, pdf \in Uploads :
        /\ req' = [req EXCEPT ![r] = [filename |-> fn, pdf |-> pdf]]
        /\ running' = running \cup {r}
        /\ IF ~Accepts(fn)
           THEN /\ response' = [response EXCEPT ![r] =
                        [status |-> 400, detail |-> "Only PDF files are supported", body |-> PyNone]]
                /\ pc' = [pc EXCEPT ![r] = "sent"]
                /\ UNCHANGED <<uploads, frame, log>>
           ELSE /\ (TmpNames \ uploads) # {}
                /\ uploads' = uploads \cup {FreshName(uploads)}
                /\ frame' = [frame EXCEPT ![r].tmp_path = FreshName(uploads)]
                /\ log' = [log EXCEPT ![r].created = @ + 1]
                /\ pc' = [pc EXCEPT ![r] = "extract"]
                /\ UNCHANGED response
    /\ UNCHANGED <<ocr, images, enhancerVars>>

\* extractor.extract_resume(tmp_path) calls extract_text_from_pdf: fitz.open
OpenPdf(r) ==
    /\ pc[r] = "extract"
    /\ r \in running
    /\ log' = Trace(r, "text")
    /\ IF req[r].pdf.readable
       THEN /\ frame' = [frame EXCEPT ![r].doc = "open", ![r].page_num = 0, ![r].text = <<>>]
            /\ pc' = [pc EXCEPT ![r] = "page"]
       ELSE /\ frame' = Raise(r, "FileDataError: cannot open document")
            /\ pc' = [pc EXCEPT ![r] = "respond"]
    /\ UNCHANGED <<ocr, running, uploads, images, req, response, enhancerVars>>

\* text += page_text + "\n"
AppendPage(text, page_text) == text \o page_text \o Newline

PageEntry(n, page_text, img, ocred) == [n |-> n, text |-> page_text, img |-> img, ocr |-> ocred]

\* One iteration of the page loop up to the OCR call: the text layer is read
\* and, when it is too short, the page image is written to temp_page_<n>.png.
ReadPage(r) ==
    /\ pc[r] = "page"
    /\ r \in running
    /\ frame[r].page_num < Len(req[r].pdf.pages)
    /\ LET n == frame[r].page_num
           page_text == req[r].pdf.pages[n + 1].layer
       IN IF NeedsOcr(page_text)
          THEN /\ images' = images \cup {n}
               /\ frame' = [frame EXCEPT ![r].page_text = page_text]
               /\ log' = [log EXCEPT ![r].pages = Append(@, PageEntry(n, page_text, TRUE, FALSE))]
               /\ pc' = [pc EXCEPT ![r] = "ocr"]
          ELSE /\ frame' = [frame EXCEPT ![r].text = AppendPage(@, page_text),
                                         ![r].page_text = page_text,
                                         ![r].page_num = n + 1]
               /\ log' = [log EXCEPT ![r].pages = Append(@, PageEntry(n, page_text, FALSE, FALSE))]
               /\ UNCHANGED <<images, pc>>
    /\ UNCHANGED <<ocr, running, uploads, req, response, enhancerVars>>

\* an OCR step that, without an engine, goes on with the text layer alone
RunOcrSkipping(r) ==
    /\ pc[r] = "ocr"
    /\ r \in running
    /\ LET n == frame[r].page_num
           lines == IF ocr = "none" THEN <<>> ELSE OcrText(req[r].pdf.pages[n + 1].ocr)
           page_text == frame[r].page_text \o lines
           k == Len(log[r].pages)
       IN /\ images' = images \ {n}
          /\ frame' = [frame EXCEPT ![r].text = AppendPage(@, page_text),
                                    ![r].page_text = page_text,
                                    ![r].page_num = n + 1]
          /\ log' = [log EXCEPT ![r].pages[k] = PageEntry(n, page_text, TRUE, TRUE)]
          /\ pc' = [pc EXCEPT ![r] = "page"]
    /\ UNCHANGED <<ocr, running, uploads, req, response, enhancerVars>>

\* The rest of the iteration for a page sent to OCR: the OCR call, the text
\* of its result, the removal of the temporary image.
RunOcr(r) ==
    /\ pc[r] = "ocr"
    /\ r \in running
    /\ LET n == frame[r].page_num
           page_text == frame[r].page_text \o OcrText(req[r].pdf.pages[n + 1].ocr)
           k == Len(log[r].pages)
       IN IF ocr = "none"
          THEN /\ frame' = Raise(r, "AttributeError: 'NoneType' object has no attribute 'ocr'")
               /\ log' = [log EXCEPT ![r].pages[k].ocr = TRUE]
               /\ pc' = [pc EXCEPT ![r] = "respond"]
               /\ UNCHANGED images
          ELSE IF n \notin images
          THEN /\ frame' = Raise(r, "FileNotFoundError: temp_page")
               /\ log' = [log EXCEPT ![r].pages[k].ocr = TRUE]
               /\ pc' = [pc EXCEPT ![r] = "respond"]
               /\ UNCHANGED images
          ELSE /\ images' = images \ {n}
               /\ frame' = [frame EXCEPT ![r].text = AppendPage(@, page_text),
                                         ![r].page_text = page_text,
                                         ![r].page_num = n + 1]
               /\ log' = [log EXCEPT ![r].pages[k] = PageEntry(n, page_text, TRUE, TRUE)]
               /\ pc' = [pc EXCEPT ![r] = "page"]
    /\ UNCHANGED <<ocr, running, uploads, req, response, enhancerVars>>

\* The page loop is over: the document is closed, the text cleaned and
\* returned to extract_resume, which refuses a text that is too short and
\* otherwise calls extract_with_llm.
ClosePdf(r) ==
    /\ pc[r] = "page"
    /\ r \in running
    /\ frame[r].page_num = Len(req[r].pdf.pages)
    /\ LET text == clean_text(frame[r].text)
       IN IF InsufficientText(text)
          THEN /\ frame' = [frame EXCEPT ![r].doc = "closed", ![r].text = text,
                                         ![r].exc = "Could not extract sufficient text from PDF"]
               /\ log' = Trace(r, "text_done")
               /\ pc' = [pc EXCEPT ![r] = "respond"]
          ELSE /\ frame' = [frame EXCEPT ![r].doc = "closed", ![r].text = text,
                                         ![r].prompt = create_extraction_prompt(text),
                                         ![r].max_retries = DefaultMaxRetries,
                                         ![r].attempt = 0]
               /\ log' = [log EXCEPT ![r].trace = @ \o <<"text_done", "llm">>]
               /\ pc' = [pc EXCEPT ![r] = "llm"]
    /\ UNCHANGED <<ocr, running, uploads, images, req, response, enhancerVars>>


(***************************************************************************)
(* ResumeExtractor.extract_with_llm: one action per iteration of the retry *)
(* loop.  The call is over when pc is "validate" (it returned raw_data) or *)
(* "respond" (it raised exc).                                              *)
(***************************************************************************)
\* for attempt in range(max_retries)
MoreAttempts(attempt, max_retries) == attempt < max_retries

\* attempt == max_retries - 1
IsLastAttempt(attempt, max_retries) == attempt = max_retries - 1

\* what ollama.chat can do: raise, or answer with a text
ChatOutcomes(contents) ==
    [raises : {TRUE}, err : ChatErrors, content : {<<>>}]
    \cup [raises : {FALSE}, err : {""}, content : contents]

\* One iteration of the loop, the attempt-th, with ollama.chat ending by out:
\* the function returns val, raises err, or goes on to the next attempt with
\* json_text bound or not.
LoopReturn(v) == [kind |-> "return", val |-> v, err |-> "", bound |-> FALSE, json_text |-> <<>>]

LoopRaise(msg) == [kind |-> "raise", val |-> PyNone, err |-> msg, bound |-> FALSE, json_text |-> <<>>]

LoopContinue(bound, json_text) ==
    [kind |-> "continue", val |-> PyNone, err |-> "", bound |-> bound, json_text |-> json_text]

\* a loop whose last attempt, when ollama.chat raises, repairs the json_text an
\* earlier attempt left behind
LoopBodyFixStale(f, out) ==
    LET last == IsLastAttempt(f.attempt, f.max_retries)
        json_text == clean_json_response(out.content)
        data == json_loads(json_text)
        fixed == fix_json_errors(json_text)
        stale == fix_json_errors(f.json_text)
    IN IF out.raises
       THEN IF last
            THEN IF f.json_bound /\ stale.ok THEN LoopReturn(stale.val) ELSE LoopRaise(out.err)
            ELSE LoopContinue(f.json_bound, f.json_text)
       ELSE IF data.ok THEN LoopReturn(data.val)
       ELSE IF last
            THEN IF fixed.ok THEN LoopReturn(fixed.val) ELSE LoopRaise(fixed.err)
            ELSE LoopContinue(TRUE, json_text)

\* a loop that keeps a parsed answer only on the last attempt
LoopBodyNoEarlyReturn(f, out) ==
    LET last == IsLastAttempt(f.attempt, f.max_retries)
        json_text == clean_json_response(out.content)
        data == json_loads(json_text)
        fixed == fix_json_errors(json_text)
    IN IF out.raises
       THEN IF last THEN LoopRaise(out.err) ELSE LoopContinue(f.json_bound, f.json_text)
       ELSE IF data.ok /\ last THEN LoopReturn(data.val)
       ELSE IF data.ok THEN LoopContinue(TRUE, json_text)
       ELSE IF last
            THEN IF fixed.ok THEN LoopReturn(fixed.val) ELSE LoopRaise(fixed.err)
            ELSE LoopContinue(TRUE, json_text)

LoopBody(f, out) ==
    LET last == IsLastAttempt(f.attempt, f.max_retries)
        json_text == clean_json_response(out.content)
        data == json_loads(json_text)
        fixed == fix_json_errors(json_text)
    IN IF out.raises
       THEN \* except Exception
            IF last THEN LoopRaise(out.err) ELSE LoopContinue(f.json_bound, f.json_text)
       ELSE IF data.ok THEN LoopReturn(data.val)
       ELSE \* except json.JSONDecodeError
            IF last
            THEN IF fixed.ok THEN LoopReturn(fixed.val) ELSE LoopRaise(fixed.err)
            ELSE LoopContinue(TRUE, json_text)

\* how an answer of ollama.chat went: it raised, did not parse, or parsed
AnswerKind(out) ==
    IF out.raises THEN "error"
    ELSE IF json_loads(clean_json_response(out.content)).ok THEN "parsed" ELSE "json_error"

LlmAttempt(r, contents) ==
    /\ pc[r] = "llm"
    /\ r \in running
    /\ MoreAttempts(frame[r].attempt, frame[r].max_retries)
    /\ \E out \in ChatOutcomes(contents) :
        LET f == frame[r]
            b == LoopBody(f, out)
        IN /\ log' = [log EXCEPT ![r].chats = Append(@, [prompt |-> f.prompt, kind |-> AnswerKind(out)]),
                                 ![r].last_content = out.content,
                                 ![r].trace = IF b.kind = "continue" THEN @ ELSE Append(@, "llm_done")]
           /\ frame' = [frame EXCEPT
                          ![r].attempt = IF b.kind = "continue" THEN @ + 1 ELSE 0,
                          ![r].json_bound = b.bound,
                          ![r].json_text = b.json_text,
                          ![r].raw_data = b.val,
                          ![r].exc = b.err]
           /\ pc' = [pc EXCEPT ![r] = CASE b.kind = "return" -> "validate"
                                        [] b.kind = "raise"  -> "respond"
                                        [] OTHER             -> "llm"]
    /\ UNCHANGED <<ocr, running, uploads, images, req, response, enhancerVars>>

\* The loop ends without a return or a raise (max_retries < 1): the function
\* returns None.
LlmExhausted(r) ==
    /\ pc[r] = "llm"
    /\ r \in running
    /\ ~MoreAttempts(frame[r].attempt, frame[r].max_retries)
    /\ frame' = [frame EXCEPT ![r].raw_data = PyNone, ![r].attempt = 0,
                              ![r].json_bound = FALSE, ![r].json_text = <<>>]
    /\ pc' = [pc EXCEPT ![r] = "validate"]
    /\ log' = Trace(r, "llm_done")
    /\ UNCHANGED <<ocr, running, uploads, images, req, response, enhancerVars>>

\* Step 3 of extract_resume: validate_and_enhance(raw_data)
Validate(r) ==
    /\ pc[r] = "validate"
    /\ r \in running
    /\ LET v == validate_and_enhance(frame[r].raw_data)
       IN /\ frame' = IF v.ok THEN [frame EXCEPT ![r].resume_data = v.val]
                      ELSE Raise(r, v.err)
          /\ log' = [log EXCEPT ![r].trace = @ \o (IF v.ok THEN <<"validate", "validate_done">>
                                                   ELSE <<"validate">>)]
    /\ pc' = [pc EXCEPT ![r] = "respond"]
    /\ UNCHANGED <<ocr, running, uploads, images, req, response, enhancerVars>>

\* an except clause that hides the message of the exception
HandlerResponseGeneric(f) ==
    IF f.exc = ""
    THEN [status |-> 200, detail |-> "", body |-> ToDict(f.resume_data)]
    ELSE [status |-> 500, detail |-> "Internal Server Error", body |-> PyNone]

\* what the try/except of the handler answers with
HandlerResponse(f) ==
    IF f.exc = ""
    THEN [status |-> 200, detail |-> "", body |-> ToDict(f.resume_data)]
    ELSE [status |-> 500, detail |-> f.exc, body |-> PyNone]

\* a handler without its finally clause
UnlinkSkipped(files, tmp_path) == files

\* the finally clause: os.unlink(tmp_path)
Unlink(files, tmp_path) == files \ {tmp_path}

\* The end of the handler's try statement: the response or the HTTPException,
\* then the finally clause.
Respond(r) ==
    /\ pc[r] = "respond"
    /\ r \in running
    /\ response' = [response EXCEPT ![r] = HandlerResponse(frame[r])]
    /\ uploads' = Unlink(uploads, frame[r].tmp_path)
    /\ pc' = [pc EXCEPT ![r] = "sent"]
    /\ UNCHANGED <<ocr, running, images, req, frame, log, enhancerVars>>

\* The handler has returned: its locals are gone, the response is with the
\* client, the event loop is free for the next request.
Return(r) ==
    /\ pc[r] = "sent"
    /\ r \in running
    /\ running' = running \ {r}
    /\ pc' = [pc EXCEPT ![r] = "idle"]
    /\ req' = [req EXCEPT ![r] = NoReq]
    /\ frame' = [frame EXCEPT ![r] = NoFrame]
    /\ response' = [response EXCEPT ![r] = NoResponse]
    /\ log' = [log EXCEPT ![r] = NoLog]
    /\ UNCHANGED <<ocr, uploads, images, enhancerVars>>

Next ==
    \E r \in Requests :
        \/ Arrive(r)
        \/ Begin(r)
        \/ OpenPdf(r)
        \/ ReadPage(r)
        \/ RunOcr(r)
        \/ ClosePdf(r)
        \/ LlmAttempt(r, ResponseSamples)
        \/ Validate(r)
        \/ Respond(r)
        \/ Return(r)

Spec == Init /\ [][Next]_vars


(***************************************************************************)
(* extract_with_llm and fix_json_errors called on their own: one call of   *)
(* extract_with_llm(text, max_retries), or one call of                     *)
(* fix_json_errors(json_text), by request 1.                               *)
(***************************************************************************)
\* the largest max_retries a call is made with
MaxRetriesBound == 3

\* the longest token sequence fix_json_errors is called with
MaxJsonLen == 3

JsonAlphabet == {LBrace, RBrace, LBrack, RBrack, Comma, Colon, Sq("a"), Dq("a"), Num("1"), Ws}

\* two numbers side by side would read as one number
Lexed(s) == \A i \in 1..(Len(s) - 1) : ~(s[i].k = "num" /\ s[i + 1].k = "num")

JsonTexts == { s \in UNION { [1..n -> JsonAlphabet] : n \in 0..MaxJsonLen } : Lexed(s) }

\* {} , } { , [1, ] and {"it's":1}
RespEmptyObject == << LBrace, RBrace >>

RespReversed == << RBrace, Ws, LBrace >>

RespTrailingList == << LBrack, Num("1"), Comma, Ws, RBrack >>

RespApostrophe == << LBrace, Dqa("it"), Colon, Num("1"), Comma, RBrace >>

LlmResponses ==
    ResponseSamples \cup {RespEmptyObject, RespReversed, RespTrailingList, RespApostrophe}

\* cleaned resume texts
LlmTexts == { <<100>>, <<60, 0, 50>> }

\* the request whose handler makes the call
Caller == CHOOSE r \in Requests : \A q \in Requests : r <= q

InitLlm ==
    /\ ocr = "ready"
    /\ running = {Caller}
    /\ uploads = {}
    /\ images = {}
    /\ req = [r \in Requests |-> NoReq]
    /\ response = [r \in Requests |-> NoResponse]
    /\ log = [r \in Requests |-> NoLog]
    /\ EnhancerIdle
    /\ \/ \E text \in LlmTexts, m \in 0..MaxRetriesBound :
            /\ pc = [r \in Requests |-> IF r = Caller THEN "llm" ELSE "idle"]
            /\ frame = [r \in Requests |->
                          IF r = Caller
                          THEN [NoFrame EXCEPT !.text = text,
                                               !.prompt = create_extraction_prompt(text),
                                               !.max_retries = m]
                          ELSE NoFrame]
       \/ \E json_text \in JsonTexts \cup LlmResponses :
            /\ pc = [r \in Requests |-> IF r = Caller THEN "fix" ELSE "idle"]
            /\ frame = [r \in Requests |->
                          IF r = Caller
                          THEN [NoFrame EXCEPT !.json_bound = TRUE, !.json_text = json_text]
                          ELSE NoFrame]

\* fix_json_errors(json_text), called on its own
FixCall(r) ==
    /\ pc[r] = "fix"
    /\ LET a == fix_json_errors(frame[r].json_text)
       IN /\ frame' = [frame EXCEPT ![r].raw_data = a.val, ![r].exc = a.err]
          /\ pc' = [pc EXCEPT ![r] = IF a.ok THEN "fix_returned" ELSE "fix_raised"]
    /\ UNCHANGED <<ocr, running, uploads, images, req, response, log, enhancerVars>>

NextLlm ==
    \/ LlmAttempt(Caller, LlmResponses)
    \/ LlmExhausted(Caller)
    \/ FixCall(Caller)

SpecLlm == InitLlm /\ [][NextLlm]_vars


(***************************************************************************)
(* clean_json_response called on its own, on the content of a response.    *)
(***************************************************************************)
CleanAlphabet == {LBrace, RBrace, Fence, Word("json"), Ws, Dq("a")}

\* response contents: every token sequence up to MaxJsonLen, and the samples
CleanTexts == UNION { [1..n -> CleanAlphabet] : n \in 0..MaxJsonLen } \cup LlmResponses

InitClean ==
    /\ ocr = "ready"
    /\ running = {Caller}
    /\ uploads = {}
    /\ images = {}
    /\ req = [r \in Requests |-> NoReq]
    /\ response = [r \in Requests |-> NoResponse]
    /\ EnhancerIdle
    /\ pc = [r \in Requests |-> IF r = Caller THEN "clean" ELSE "idle"]
    /\ frame = [r \in Requests |-> NoFrame]
    /\ \E content \in CleanTexts :
          log = [r \in Requests |-> IF r = Caller THEN [NoLog EXCEPT !.last_content = content]
                                    ELSE NoLog]

\* json_text = self.clean_json_response(json_text)
CleanCall(r) ==
    /\ pc[r] = "clean"
    /\ frame' = [frame EXCEPT ![r].json_bound = TRUE,
                              ![r].json_text = clean_json_response(log[r].last_content)]
    /\ pc' = [pc EXCEPT ![r] = "cleaned"]
    /\ UNCHANGED <<ocr, running, uploads, images, req, response, log, enhancerVars>>

NextClean == CleanCall(Caller)

SpecClean == InitClean /\ [][NextClean]_vars


(***************************************************************************)
(* ResumeEnhancer.calculate_ats_score.  A resume dictionary has the shape  *)
(* of ResumeData: sections may be missing and optional fields may be None, *)
(* but a section that is present has the type of its field.                *)
(***************************************************************************)
\* the texts of responsibilities the model draws from
SampleTexts == {"Led a team of 5+", "cut costs by 40%", "was misled", "wrote docs"}

\* verb in text.lower(), for the sample texts
ContainsVerb(text, verb) ==
    \/ text = "Led a team of 5+" /\ verb = "led"
    \/ text = "was misled" /\ verb = "led"

\* re.search(r'\d+%|\$\d+|\d+\+', text.lower()), for the sample texts
HasQuantity(text) == text \in {"Led a team of 5+", "cut costs by 40%"}

\* +n when the condition holds
Points(cond, n) == IF cond THEN n ELSE 0

\* the elements of a list value
Items(xs) == { xs.items[i] : i \in 1..Len(xs.items) }

max_score == 100

\* personal information (20 points)
personal_score(resume_data) ==
    LET personal_info == DictGet(resume_data, "personal_info", EmptyDict)
        Has(k) == Truthy(DictGet(personal_info, k, PyNone))
    IN Points(Has("name"), 5) + Points(Has("email"), 5)
       + Points(Has("phone"), 5) + Points(Has("location"), 5)

\* experience section (30 points)
experience_score(resume_data) ==
    LET experience == DictGet(resume_data, "experience", PyList(<<>>))
        Dated(exp) == Truthy(DictGet(exp, "start_date", PyNone))
        Described(exp) == Len(DictGet(exp, "responsibilities", PyList(<<>>)).items) >= 2
    IN IF Truthy(experience)
       THEN 10 + Points(\A exp \in Items(experience) : Dated(exp), 10)
               + Points(\A exp \in Items(experience) : Described(exp), 10)
       ELSE 0

\* education (15 points)
education_score(resume_data) ==
    LET education == DictGet(resume_data, "education", PyList(<<>>))
        Complete(edu) == /\ Truthy(DictGet(edu, "degree", PyNone))
                         /\ Truthy(DictGet(edu, "institution", PyNone))
    IN IF Truthy(education)
       THEN 10 + Points(\A edu \in Items(education) : Complete(edu), 5)
       ELSE 0

\* sum(len(skills.get(k, [])) for k in ['technical', 'soft', 'languages', 'tools'])
total_skills(resume_data) ==
    LET skills == DictGet(resume_data, "skills", EmptyDict)
        Count(k) == Len(DictGet(skills, k, PyList(<<>>)).items)
    IN Count("technical") + Count("soft") + Count("languages") + Count("tools")

\* a scoring that gives fifteen points at the second threshold
skills_score_generous(resume_data) ==
    Points(total_skills(resume_data) >= 5, 10) + Points(total_skills(resume_data) >= 10, 15)

\* skills (20 points)
skills_score(resume_data) ==
    Points(total_skills(resume_data) >= 5, 10) + Points(total_skills(resume_data) >= 10, 10)

action_verbs == {"managed", "led", "developed", "created", "implemented", "achieved"}

\* Keywords and formatting (15 points).  exp_text joins the responsibilities
\* with spaces; no verb and no match of the pattern holds a space, so each
\* is found in exp_text exactly when it is found in one responsibility.
keyword_score(resume_data) ==
    LET experience == DictGet(resume_data, "experience", PyList(<<>>))
        Texts(exp) == DictGet(exp, "responsibilities", PyList(<<>>))
        HasVerb(exp) == \E resp \in Items(Texts(exp)), verb \in action_verbs :
                            ContainsVerb(resp.s, verb)
        HasNumbers(exp) == \E resp \in Items(Texts(exp)) : HasQuantity(resp.s)
    IN Points(\E exp \in Items(experience) : HasVerb(exp), 10)
       + Points(\E exp \in Items(experience) : HasNumbers(exp), 5)

\* round(score / max_score * 100, 2), in hundredths
Percentage(score, max) == (score * 100 * 100 * 2 + max) \div (2 * max)

calculate_ats_score(resume_data) ==
    LET breakdown == [ personal_info |-> personal_score(resume_data),
                       experience    |-> experience_score(resume_data),
                       education     |-> education_score(resume_data),
                       skills        |-> skills_score(resume_data),
                       keywords      |-> keyword_score(resume_data) ]
        score == breakdown.personal_info + breakdown.experience + breakdown.education
                 + breakdown.skills + breakdown.keywords
    IN [ total_score |-> score,
         max_score   |-> max_score,
         percentage  |-> Percentage(score, max_score),
         breakdown   |-> breakdown ]


\* re.search(r'\d+', text), for the sample texts
HasDigit(text) == text \in {"Led a team of 5+", "cut costs by 40%"}

\* a suggestion: its text and the name put into it, None when it has none
Suggestion(text, name) == <<text, name>>

\* a suggest_improvements that asks for two responsibilities only
suggest_improvements_two(resume_data) ==
    LET personal_info == DictGet(resume_data, "personal_info", EmptyDict)
        experience == DictGet(resume_data, "experience", PyList(<<>>))
        education == DictGet(resume_data, "education", PyList(<<>>))
        Unless(v, text) == IF Truthy(v) THEN <<>> ELSE <<Suggestion(text, PyNone)>>
        ForExp(i) ==
            LET exp == experience.items[i]
                resps == DictGet(exp, "responsibilities", PyList(<<>>))
                company == DictGet(exp, "company", PyStr("Company " \o ToString(i)))
            IN (IF Len(resps.items) < 2
                THEN <<Suggestion("Add more details to position at", company)>> ELSE <<>>)
               \o (IF \E resp \in Items(resps) : HasDigit(resp.s)
                   THEN <<>>
                   ELSE <<Suggestion("Add quantifiable achievements for position at", company)>>)
        ForEdu(i) ==
            LET edu == education.items[i]
            IN IF Truthy(DictGet(edu, "end_date", PyNone)) THEN <<>>
               ELSE <<Suggestion("Add graduation date for",
                                 DictGet(edu, "institution", PyStr("education")))>>
        RECURSIVE Each(_, _, _)
        Each(kind, i, n) ==
            IF i > n THEN <<>>
            ELSE (IF kind = "exp" THEN ForExp(i) ELSE ForEdu(i)) \o Each(kind, i + 1, n)
    IN Unless(DictGet(personal_info, "email", PyNone), "Add email address for contact information")
       \o Unless(DictGet(personal_info, "phone", PyNone), "Add phone number for easier contact")
       \o Unless(DictGet(personal_info, "linkedin", PyNone),
                 "Add LinkedIn profile to showcase professional network")
       \o Unless(DictGet(resume_data, "summary", PyNone),
                 "Add a professional summary to highlight your value proposition")
       \o (IF Truthy(experience) THEN Each("exp", 1, Len(experience.items)) ELSE <<>>)
       \o (IF total_skills(resume_data) < 10
           THEN <<Suggestion("Add more relevant skills to improve keyword matching", PyNone)>>
           ELSE <<>>)
       \o Each("edu", 1, Len(education.items))

\* ResumeEnhancer.suggest_improvements on a dictionary of the shape of
\* ResumeData: the suggestions in the order they are appended
suggest_improvements(resume_data) ==
    LET personal_info == DictGet(resume_data, "personal_info", EmptyDict)
        experience == DictGet(resume_data, "experience", PyList(<<>>))
        education == DictGet(resume_data, "education", PyList(<<>>))
        Unless(v, text) == IF Truthy(v) THEN <<>> ELSE <<Suggestion(text, PyNone)>>
        \* enumerate(experience): i counts from 1 here, the default name is
        \* 'Company ' + str(i + 1) for Python's i from 0
        ForExp(i) ==
            LET exp == experience.items[i]
                resps == DictGet(exp, "responsibilities", PyList(<<>>))
                company == DictGet(exp, "company", PyStr("Company " \o ToString(i)))
            IN (IF Len(resps.items) < 3
                THEN <<Suggestion("Add more details to position at", company)>> ELSE <<>>)
               \o (IF \E resp \in Items(resps) : HasDigit(resp.s)
                   THEN <<>>
                   ELSE <<Suggestion("Add quantifiable achievements for position at", company)>>)
        ForEdu(i) ==
            LET edu == education.items[i]
            IN IF Truthy(DictGet(edu, "end_date", PyNone)) THEN <<>>
               ELSE <<Suggestion("Add graduation date for",
                                 DictGet(edu, "institution", PyStr("education")))>>
        RECURSIVE Each(_, _, _)
        Each(kind, i, n) ==
            IF i > n THEN <<>>
            ELSE (IF kind = "exp" THEN ForExp(i) ELSE ForEdu(i)) \o Each(kind, i + 1, n)
    IN Unless(DictGet(personal_info, "email", PyNone), "Add email address for contact information")
       \o Unless(DictGet(personal_info, "phone", PyNone), "Add phone number for easier contact")
       \o Unless(DictGet(personal_info, "linkedin", PyNone),
                 "Add LinkedIn profile to showcase professional network")
       \o Unless(DictGet(resume_data, "summary", PyNone),
                 "Add a professional summary to highlight your value proposition")
       \o (IF Truthy(experience) THEN Each("exp", 1, Len(experience.items)) ELSE <<>>)
       \o (IF total_skills(resume_data) < 10
           THEN <<Suggestion("Add more relevant skills to improve keyword matching", PyNone)>>
           ELSE <<>>)
       \o Each("edu", 1, Len(education.items))


(***************************************************************************)
(* The analysis functions of ResumeEnhancer and the objects they work on.  *)
(* A caller holds a ResumeEnhancer and passes it objects: a resume         *)
(* dictionary (resume), a second one (resume2, for compare_resumes), a     *)
(* list of job requirements and a job description.  Python passes          *)
(* references, so a function that changes an object in place through a     *)
(* name bound to one of them changes the caller's object.                  *)
(***************************************************************************)
Functions ==
    { "calculate_experience_years", "extract_key_skills", "calculate_skill_match",
      "generate_summary", "analyze_career_progression", "extract_achievements",
      "suggest_improvements", "calculate_ats_score", "compare_resumes",
      "generate_cover_letter_points", "extract_industry_keywords" }

\* The statements of a function that matter to its caller:
\*   fresh    the local names bound to an object the function creates
\*   alias    the local names (parameters included) bound to an object of the
\*            caller, or to a part of one, with the object
\*   writes   the names through which an object is changed in place
\*            (append, extend, update, subscript assignment)
\*   assigns  the attributes of self the function assigns
\*   attrs    the attributes of self the function reads
\*   calls    the functions of self it calls
\* functions whose working lists and dictionaries are taken from the resume
\* passed to them instead of being created
BodyShared(fresh, alias, writes, attrs, calls) ==
    [fresh |-> {}, alias |-> alias \cup { <<name, "resume">> : name \in fresh },
     writes |-> writes, assigns |-> {}, attrs |-> attrs, calls |-> calls]

Body(fresh, alias, writes, attrs, calls) ==
    [fresh |-> fresh, alias |-> alias, writes |-> writes, assigns |-> {},
     attrs |-> attrs, calls |-> calls]

Statements(fn) ==
    CASE fn = "calculate_experience_years" ->       \* lines 36-69
            Body({}, {<<"experience", "resume">>, <<"exp", "resume">>}, {}, {}, {})
      [] fn = "extract_key_skills" ->               \* lines 105-147
            Body({"text_parts"},                                          \* 108
                 {<<"resume_data", "resume">>, <<"exp", "resume">>,
                  <<"skills", "resume">>, <<"project", "resume">>},       \* 111, 115, 120
                 {"text_parts"},                                          \* 112, 117, 121, 122
                 {}, {})
      [] fn = "calculate_skill_match" ->            \* lines 149-170
            Body({"resume_skills", "job_requirements_lower"},             \* 152, 167
                 {<<"resume_data", "resume">>, <<"skills", "resume">>, <<"exp", "resume">>,
                  <<"job_requirements", "job_requirements">>},
                 {"resume_skills"},                                       \* 157, 164
                 {"stop_words"},                                          \* 164
                 {})
      [] fn = "generate_summary" ->                 \* lines 172-210
            Body({"summary_parts"},                                       \* 193
                 {<<"resume_data", "resume">>, <<"education", "resume">>},
                 {"summary_parts"},                                       \* 196, 199, 202, 206
                 {},
                 {"calculate_experience_years", "extract_key_skills"})    \* 178, 186
      [] fn = "analyze_career_progression" ->       \* lines 212-255
            Body({"positions", "companies", "progression_indicators"},    \* 217, 218, 221
                 {<<"experience", "resume">>}, {}, {}, {})
      [] fn = "extract_achievements" ->             \* lines 257-282
            Body({"achievements", "achievement_patterns"},                \* 259, 262
                 {<<"resume_data", "resume">>, <<"exp", "resume">>},
                 {"achievements"},                                        \* 276, 280
                 {}, {})
      [] fn = "suggest_improvements" ->             \* lines 284-324
            Body({"suggestions"},                                         \* 286
                 {<<"resume_data", "resume">>, <<"personal_info", "resume">>,
                  <<"experience", "resume">>, <<"skills", "resume">>, <<"edu", "resume">>},
                 {"suggestions"},                                         \* 291-322
                 {}, {})
      [] fn = "calculate_ats_score" ->              \* lines 326-394
            Body({"breakdown", "action_verbs"},                           \* 330, 378
                 {<<"resume_data", "resume">>, <<"personal_info", "resume">>,
                  <<"experience", "resume">>, <<"education", "resume">>, <<"skills", "resume">>},
                 {"breakdown"},                                           \* 339, 353, 363, 372, 385
                 {}, {})
      [] fn = "compare_resumes" ->                  \* lines 396-430
            Body({"comparison", "skills1", "skills2"},                    \* 398, 419, 420
                 {<<"resume1", "resume">>, <<"resume2", "resume2">>},
                 {"comparison", "skills1", "skills2"},                    \* 423-428
                 {},
                 {"calculate_experience_years", "calculate_ats_score"})   \* 400-409
      [] fn = "generate_cover_letter_points" ->     \* lines 432-469
            Body({"points", "achievements", "job_keywords", "matching_skills"}, \* 434, 437, 448, 451
                 {<<"resume_data", "resume">>, <<"skills", "resume">>, <<"education", "resume">>,
                  <<"job_description", "job_description">>},
                 {"points", "matching_skills"},                           \* 439, 445, 456, 459, 467
                 {"stop_words"},                                          \* 449
                 {"extract_achievements", "calculate_experience_years"})  \* 437, 442
      [] fn = "extract_industry_keywords" ->        \* lines 471-499
            Body({"industry_keywords", "all_text", "detected_industries"}, \* 473, 482, 493
                 {<<"resume_data", "resume">>, <<"exp", "resume">>, <<"skills", "resume">>},
                 {"all_text", "detected_industries"},                     \* 484, 488, 497
                 {}, {})

\* the function and the functions it calls, directly or through one of them
Reach(fn) ==
    LET direct == {fn} \cup Statements(fn).calls
    IN direct \cup UNION { Statements(g).calls : g \in direct }

\* the objects of the caller a call of fn changes in place
Touched(fn) ==
    { a[2] : a \in UNION { { b \in Statements(g).alias : b[1] \in Statements(g).writes }
                           : g \in Reach(fn) } }

\* the attributes of self a call of fn assigns
Assigned(fn) == UNION { Statements(g).assigns : g \in Reach(fn) }

\* the objects and the attributes a call of fn reads
ObjectsRead(fn) == { a[2] : a \in UNION { Statements(g).alias : g \in Reach(fn) } }

AttrsRead(fn) == UNION { Statements(g).attrs : g \in Reach(fn) }

\* an object after a change in place
Written(v) ==
    IF v.t = "list" THEN PyList(Append(v.items, PyNone)) ELSE DictSet(v, "", PyNone)

\* an attribute of self after an assignment
Rebound(a) == IF a = "nlp" THEN "rebound" ELSE {"rebound"}

\* The value a call returns.  calculate_ats_score is computed; of the other
\* functions the model keeps what the value is computed from: the objects
\* and the attributes the function reads, as they are at the call.
Returned(fn, objects, self) ==
    [ value |-> CASE fn = "calculate_ats_score"  -> calculate_ats_score(objects.resume)
                  [] fn = "suggest_improvements" -> suggest_improvements(objects.resume)
                  [] OTHER                       -> PyNone,
      from  |-> [o \in ObjectsRead(fn) |-> objects[o]],
      self  |-> [a \in AttrsRead(fn) |-> self[a]] ]

\* the caller calls fn on its objects
Call(fn) ==
    /\ passed # NoPassed
    /\ result' = [fn |-> fn, prev |-> result.fn, ret |-> Returned(fn, passed, enhancer)]
    /\ passed' = [o \in DOMAIN passed |->
                     IF o \in Touched(fn) THEN Written(passed[o]) ELSE passed[o]]
    /\ enhancer' = [a \in DOMAIN enhancer |->
                     IF a \in Assigned(fn) THEN Rebound(a) ELSE enhancer[a]]
    /\ UNCHANGED <<serverVars, given>>

\* the longest experience and education lists of a resume
MaxEntries == 2

\* a section that is missing from a resume dictionary
Absent == [PyNone EXCEPT !.t = "absent"]

WithKey(d, k, v) == IF v = Absent THEN d ELSE DictSet(d, k, v)

Resume(personal_info, experience, education, skills) ==
    WithKey(WithKey(WithKey(WithKey(EmptyDict, "personal_info", personal_info),
                            "experience", experience),
                    "education", education),
            "skills", skills)

\* the lists of at most n elements of S
Lists(S, n) == { PyList(xs) : xs \in UNION { [1..k -> S] : k \in 0..n } }

ListOfStr(xs) == PyList([i \in 1..Len(xs) |-> PyStr(xs[i])])

FullInfo ==
    PyDict(<<"name", "email", "phone", "location">>,
           <<PyStr("John Doe"), PyStr("john.doe@email.com"), PyStr("+1-234-567-8900"),
             PyStr("San Francisco, CA")>>)

PersonalInfos ==
    { Absent, EmptyDict,
      PyDict(<<"name">>, <<PyStr("Ann")>>),
      PyDict(<<"name", "email", "phone", "location">>,
             <<PyStr("Ann"), PyNone, PyStr("555"), PyStr("")>>),
      FullInfo }

ExperienceLed ==
    PyDict(<<"company", "position", "start_date", "end_date", "responsibilities">>,
           <<PyStr("Tech Corp"), PyStr("Senior Software Engineer"), PyStr("2020"), PyStr("Present"),
             ListOfStr(<<"Led a team of 5+", "cut costs by 40%">>)>>)

ExperienceUndated ==
    PyDict(<<"company", "position", "start_date", "responsibilities">>,
           <<PyStr("Initech"), PyStr("Engineer"), PyNone, ListOfStr(<<"was misled", "wrote docs">>)>>)

ExperienceBare ==
    PyDict(<<"company", "position", "start_date">>,
           <<PyStr("Initech"), PyStr("Intern"), PyStr("2019")>>)

ExperienceSamples == {ExperienceLed, ExperienceUndated, ExperienceBare}

EducationSamples ==
    { PyDict(<<"institution", "degree">>, <<PyStr("MIT"), PyStr("BSc")>>),
      PyDict(<<"institution", "degree", "end_date">>, <<PyStr("MIT"), PyStr(""), PyStr("2019")>>) }

\* a skills dictionary with so many technical, soft, language and tool skills
SkillsOf(n) ==
    LET Some(k) == PyList([i \in 1..k |-> PyStr("Python")])
    IN WithKey(WithKey(WithKey(WithKey(EmptyDict,
           "technical", IF n[1] = 0 THEN Absent ELSE Some(n[1])),
           "soft", Some(n[2])),
           "languages", IF n[3] = 0 THEN Absent ELSE Some(n[3])),
           "tools", Some(n[4]))

SkillsSamples ==
    { Absent, SkillsOf(<<4, 0, 0, 0>>), SkillsOf(<<4, 1, 0, 0>>), SkillsOf(<<4, 0, 0, 5>>),
      SkillsOf(<<4, 1, 2, 3>>) }

AtsResumes ==
    { Resume(p, x, e, k) : p \in PersonalInfos,
                           x \in {Absent} \cup Lists(ExperienceSamples, MaxEntries),
                           e \in {Absent} \cup Lists(EducationSamples, MaxEntries),
                           k \in SkillsSamples }

EnhResumes ==
    { EmptyDict,
      Resume(FullInfo, PyList(<<ExperienceLed>>), Absent, SkillsOf(<<4, 2, 0, 3>>)),
      Resume(PyDict(<<"name">>, <<PyStr("Ann")>>), PyList(<<ExperienceUndated, ExperienceBare>>),
             PyList(<<PyDict(<<"institution", "degree">>, <<PyStr("MIT"), PyStr("BSc")>>)>>),
             Absent) }

\* ResumeEnhancer.__init__: the spaCy model and the stop words, or their
\* fallbacks when loading fails
Enhancers == [nlp : {"en_core_web_sm", "none"}, stop_words : {{"the", "and"}, {}}]

ServerIdle ==
    /\ ocr = "ready"
    /\ running = {}
    /\ uploads = {}
    /\ images = {}
    /\ pc = [r \in Requests |-> "idle"]
    /\ req = [r \in Requests |-> NoReq]
    /\ frame = [r \in Requests |-> NoFrame]
    /\ response = [r \in Requests |-> NoResponse]
    /\ log = [r \in Requests |-> NoLog]

\* A caller with a ResumeEnhancer and the objects it will pass.
InitEnh ==
    /\ ServerIdle
    /\ enhancer \in Enhancers
    /\ passed \in [ resume : EnhResumes, resume2 : EnhResumes,
                    job_requirements : {PyList(<<>>), ListOfStr(<<"python", "Docker">>)},
                    job_description : {PyStr(""), PyStr("python developer")} ]
    /\ given = [objects |-> passed, self |-> enhancer]
    /\ result = NoResult

NextEnh ==
    \/ Call("calculate_experience_years")
    \/ Call("extract_key_skills")
    \/ Call("calculate_skill_match")
    \/ Call("generate_summary")
    \/ Call("analyze_career_progression")
    \/ Call("extract_achievements")
    \/ Call("suggest_improvements")
    \/ Call("calculate_ats_score")
    \/ Call("compare_resumes")
    \/ Call("generate_cover_letter_points")
    \/ Call("extract_industry_keywords")

SpecEnh == InitEnh /\ [][NextEnh]_vars

\* calculate_ats_score called on each resume dictionary
InitAts ==
    /\ ServerIdle
    /\ enhancer \in Enhancers
    /\ passed \in [ resume : AtsResumes, resume2 : {EmptyDict},
                    job_requirements : {PyList(<<>>)}, job_description : {PyStr("")} ]
    /\ given = [objects |-> passed, self |-> enhancer]
    /\ result = NoResult

NextAts == Call("calculate_ats_score")

SpecAts == InitAts /\ [][NextAts]_vars


(***************************************************************************)
(* suggest_improvements called on resume dictionaries.                     *)
(***************************************************************************)
LinkedInfo == DictSet(FullInfo, "linkedin", PyStr("linkedin.com/in/johndoe"))

SugPersonalInfos ==
    { Absent, LinkedInfo, FullInfo, DictSet(LinkedInfo, "phone", PyStr("")) }

\* an experience entry with these responsibilities
ExperienceWith(texts) ==
    PyDict(<<"company", "position", "responsibilities">>,
           <<PyStr("Tech Corp"), PyStr("Engineer"), ListOfStr(texts)>>)

SugExperiences ==
    { ExperienceWith(<<"wrote docs", "was misled", "cut costs by 40%">>),
      ExperienceWith(<<"wrote docs", "was misled", "wrote docs">>),
      ExperienceWith(<<"Led a team of 5+", "wrote docs">>),
      PyDict(<<"position">>, <<PyStr("Intern")>>) }

SugEducations ==
    { PyDict(<<"institution", "degree", "end_date">>, <<PyStr("MIT"), PyStr("BSc"), PyStr("2019")>>),
      PyDict(<<"degree", "end_date">>, <<PyStr("BSc"), PyNone>>) }

SugResumes ==
    { WithKey(Resume(p, x, e, k), "summary", s) :
          p \in SugPersonalInfos,
          x \in {Absent} \cup Lists(SugExperiences, MaxEntries),
          e \in {Absent} \cup Lists(SugEducations, MaxEntries),
          k \in {Absent, SkillsOf(<<4, 1, 2, 3>>), SkillsOf(<<4, 1, 2, 2>>)},
          s \in {Absent, PyStr(""), PyStr("Engineer")} }

InitSug ==
    /\ ServerIdle
    /\ enhancer \in Enhancers
    /\ passed \in [ resume : SugResumes, resume2 : {EmptyDict},
                    job_requirements : {PyList(<<>>)}, job_description : {PyStr("")} ]
    /\ given = [objects |-> passed, self |-> enhancer]
    /\ result = NoResult

NextSug == Call("suggest_improvements")

SpecSug == InitSug /\ [][NextSug]_vars


(***************************************************************************)
(* validate_and_enhance called on its own: extract_resume has the raw       *)
(* dictionary of the LLM in raw_data and is about to validate it.          *)
(***************************************************************************)
\* an experience entry of a raw dictionary; Absent leaves the date out
RawExperience(company, start_date, end_date) ==
    WithKey(WithKey(PyDict(<<"company", "position">>, <<PyStr(company), PyStr("Engineer")>>),
                    "start_date", start_date),
            "end_date", end_date)

RawExperiences ==
    { RawExperience("A", PyStr("2018"), PyStr("2019")),
      RawExperience("B", PyStr("2020"), PyStr("2021")),
      RawExperience("C", PyStr("2021"), PyStr("Present")),
      RawExperience("D", PyStr("Now"), PyStr("present")),
      RawExperience("E", PyStr("2021"), PyStr("CURRENT")),
      RawExperience("F", PyStr("current"), PyStr("Now")),
      RawExperience("G", PyStr("2021"), Absent),
      RawExperience("H", Absent, PyNone),
      RawExperience("I", PyStr(""), PyStr("")),
      RawExperience("J", PyNone, PyNum("2021")),
      RawExperience("K", PyStr("PreSent"), PyStr("nOw")) }

RawPersonalInfos ==
    { Absent,
      EmptyDict,
      PyDict(<<"name">>, <<PyStr("Ann")>>),
      PyDict(<<"email">>, <<PyStr("a@b.c")>>),
      PyDict(<<"name", "email">>, <<PyStr("Ann"), PyStr("a@b.c")>>),
      PyDict(<<"name", "email">>, <<PyStr("Ann"), PyStr("@")>>),
      PyDict(<<"name", "email">>, <<PyStr("Ann"), PyStr("ann")>>),
      PyDict(<<"name", "email">>, <<PyStr("Ann"), PyStr("")>>),
      PyDict(<<"name", "email">>, <<PyStr("Ann"), PyNone>>),
      PyDict(<<"name", "email">>, <<PyStr("Ann"), PyNum("5")>>),
      PyDict(<<"name", "email">>, <<PyStr("Ann"), PyNum("0")>>),
      PyDict(<<"name", "email">>, <<PyStr("Ann"), PyList(<<PyStr("ann")>>)>>) }

\* the raw dictionaries validate_and_enhance is called with
RawDatas ==
    { Resume(p, x, Absent, Absent) :
          p \in RawPersonalInfos,
          x \in {Absent} \cup Lists(RawExperiences, MaxEntries) }
    \cup { WithKey(EmptyDict, "summary", PyStr("x")), ErrorPlaceholder }

InitVal ==
    /\ ocr = "ready"
    /\ running = {Caller}
    /\ uploads = {}
    /\ images = {}
    /\ req = [r \in Requests |-> NoReq]
    /\ response = [r \in Requests |-> NoResponse]
    /\ log = [r \in Requests |-> NoLog]
    /\ EnhancerIdle
    /\ pc = [r \in Requests |-> IF r = Caller THEN "validate" ELSE "idle"]
    /\ \E data \in RawDatas :
          frame = [r \in Requests |-> IF r = Caller THEN [NoFrame EXCEPT !.raw_data = data]
                                      ELSE NoFrame]

NextVal == Validate(Caller)

SpecVal == InitVal /\ [][NextVal]_vars


(***************************************************************************)
(* The analysis functions on the dictionary form of a record, as            *)
(* test_resume_extraction calls them: what each statement needs of the      *)
(* values it is given, and so whether the call returns or raises.           *)
(***************************************************************************)
\* v.get(...) works: v is a dictionary
HasGet(v) == v.t = "dict"

\* len(v) and iteration over v work
HasLen(v) == v.t \in {"list", "str", "dict"}

\* what "for x in v" yields: the items of a list, the keys of a dictionary,
\* the characters of a string (kept as one string)
Elements(v) ==
    CASE v.t = "list" -> v.items
      [] v.t = "dict" -> [i \in 1..Len(v.keys) |-> PyStr(v.keys[i])]
      [] v.t = "str"  -> IF v.s = "" THEN <<>> ELSE <<v>>
      [] OTHER        -> <<>>

\* "for x in v: x.get(...)" raises
EachGetRaises(v) == ~HasLen(v) \/ \E i \in 1..Len(Elements(v)) : ~HasGet(Elements(v)[i])

\* ' '.join(v) raises
JoinRaises(v) == ~HasLen(v) \/ \E i \in 1..Len(Elements(v)) : ~IsStr(Elements(v)[i])

\* sum(len(skills.get(k, [])) for k in ['technical', 'soft', 'languages', 'tools'])
TotalSkillsRaises(resume_data) ==
    LET skills == DictGet(resume_data, "skills", EmptyDict)
    IN \/ ~HasGet(skills)
       \/ \E k \in {"technical", "soft", "languages", "tools"} :
              ~HasLen(DictGet(skills, k, PyList(<<>>)))

\* all(f(x) for x in v) stops at the first x that fails f: it raises when an
\* element without .get is reached
AllGetRaises(v, passes) ==
    \/ ~HasLen(v)
    \/ \E i \in 1..Len(Elements(v)) :
          /\ ~HasGet(Elements(v)[i])
          /\ \A j \in 1..(i - 1) : passes[j]

\* calculate_ats_score(resume_data) raises
AtsRaises(resume_data) ==
    LET experience == DictGet(resume_data, "experience", PyList(<<>>))
        education == DictGet(resume_data, "education", PyList(<<>>))
        edus == Elements(education)
        Complete(edu) == /\ Truthy(DictGet(edu, "degree", PyNone))
                         /\ Truthy(DictGet(edu, "institution", PyNone))
    IN \/ ~HasGet(resume_data)
       \/ ~HasGet(DictGet(resume_data, "personal_info", EmptyDict))
       \* exp_text joins the responsibilities of every entry
       \/ EachGetRaises(experience)
       \/ \E i \in 1..Len(Elements(experience)) :
              JoinRaises(DictGet(Elements(experience)[i], "responsibilities", PyList(<<>>)))
       \/ Truthy(education) /\ AllGetRaises(education, [j \in 1..Len(edus) |-> Complete(edus[j])])
       \/ TotalSkillsRaises(resume_data)

\* any(re.search(r'\d+', resp) for resp in v) stops at the first match: it
\* raises when an element that is no string is reached
AnySearchRaises(v) ==
    \/ ~HasLen(v)
    \/ \E i \in 1..Len(Elements(v)) :
          /\ ~IsStr(Elements(v)[i])
          /\ \A j \in 1..(i - 1) : ~HasDigit(Elements(v)[j].s)

\* extract_key_skills(resume_data) raises: the extend calls, the loop over the
\* projects and ' '.join(text_parts) are outside its try block
KeySkillsRaises(resume_data) ==
    LET experience == DictGet(resume_data, "experience", PyList(<<>>))
        skills == DictGet(resume_data, "skills", EmptyDict)
        projects == DictGet(resume_data, "projects", PyList(<<>>))
    IN \/ EachGetRaises(experience)
       \/ \E i \in 1..Len(Elements(experience)) :
              JoinRaises(DictGet(Elements(experience)[i], "responsibilities", PyList(<<>>)))
       \/ ~HasGet(skills)
       \/ \E k \in {"technical", "soft", "languages", "tools"} :
              JoinRaises(DictGet(skills, k, PyList(<<>>)))
       \/ EachGetRaises(projects)
       \/ \E i \in 1..Len(Elements(projects)), k \in {"description", "technologies"} :
              ~IsStr(DictGet(Elements(projects)[i], k, PyStr("")))

\* generate_summary(resume_data) raises; calculate_experience_years reads
\* exp.get('start_date') of every entry before its try block
SummaryRaises(resume_data) ==
    LET experience == DictGet(resume_data, "experience", PyList(<<>>))
        education == DictGet(resume_data, "education", PyList(<<>>))
    IN \/ ~HasGet(resume_data)
       \/ ~HasGet(DictGet(resume_data, "personal_info", EmptyDict))
       \/ EachGetRaises(experience)
       \/ KeySkillsRaises(resume_data)
       \* education[0].get('degree') if education else None
       \/ Truthy(education) /\ ~(education.t = "list" /\ HasGet(education.items[1]))

\* suggest_improvements(resume_data) raises
SuggestRaises(resume_data) ==
    LET experience == DictGet(resume_data, "experience", PyList(<<>>))
        education == DictGet(resume_data, "education", PyList(<<>>))
    IN \/ ~HasGet(resume_data)
       \/ ~HasGet(DictGet(resume_data, "personal_info", EmptyDict))
       \/ Truthy(experience) /\ EachGetRaises(experience)
       \/ \E i \in 1..Len(Elements(experience)) :
              AnySearchRaises(DictGet(Elements(experience)[i], "responsibilities", PyList(<<>>)))
       \/ TotalSkillsRaises(resume_data)
       \/ EachGetRaises(education)

\* the three calls of test_resume_extraction, in its order
TestCalls == <<"calculate_ats_score", "generate_summary", "suggest_improvements">>

\* fn(resume_data) raises
CallRaises(fn, resume_data) ==
    CASE fn = "calculate_ats_score"  -> AtsRaises(resume_data)
      [] fn = "generate_summary"     -> SummaryRaises(resume_data)
      [] fn = "suggest_improvements" -> SuggestRaises(resume_data)


(***************************************************************************)
(* test_resume_extraction: the record extract_resume returns is turned      *)
(* into a dictionary for each of three calls of the ResumeEnhancer.        *)
(***************************************************************************)
TestPersonalInfos ==
    { PyDict(<<"name">>, <<PyStr("Ann")>>),
      PyDict(<<"name", "email", "phone">>, <<PyStr("Ann"), PyNone, PyStr("")>>),
      FullInfo,
      PyNone }

TestExperiences ==
    { ExperienceLed, ExperienceUndated, ExperienceBare,
      PyDict(<<"company", "position", "responsibilities">>,
             <<PyStr("Initech"), PyStr("Engineer"), PyNone>>),
      PyDict(<<"company", "position", "responsibilities">>,
             <<PyStr("Initech"), PyStr("Engineer"), PyList(<<PyStr("wrote docs"), PyNum("5")>>)>>),
      PyStr("Initech") }

TestEducations ==
    { Absent, PyNone, PyList(<<>>), PyList(<<PyNone>>),
      PyList(<<PyDict(<<"institution", "degree">>, <<PyStr("MIT"), PyStr("BSc")>>)>>) }

TestSkills ==
    { Absent, PyNone, SkillsOf(<<4, 1, 2, 3>>),
      PyDict(<<"technical">>, <<PyNone>>),
      PyDict(<<"technical">>, <<PyList(<<PyNum("5")>>)>>) }

TestProjects ==
    { Absent,
      PyList(<<PyDict(<<"name", "description">>, <<PyStr("Parser"), PyStr("wrote docs")>>)>>),
      PyList(<<PyDict(<<"name", "description">>, <<PyStr("Parser"), PyNone>>)>>) }

\* the raw dictionaries extract_with_llm hands over in the test
TestRawDatas ==
    { WithKey(Resume(p, x, e, k), "projects", j) :
          p \in TestPersonalInfos,
          x \in {Absent, PyNone} \cup Lists(TestExperiences, MaxEntries),
          e \in TestEducations,
          k \in TestSkills,
          j \in TestProjects }

InitTest ==
    /\ ocr = "ready"
    /\ running = {Caller}
    /\ uploads = {}
    /\ images = {}
    /\ req = [r \in Requests |-> NoReq]
    /\ response = [r \in Requests |-> NoResponse]
    /\ log = [r \in Requests |-> NoLog]
    /\ enhancer \in Enhancers
    /\ passed = NoPassed
    /\ given = NoGiven
    /\ result = NoResult
    /\ pc = [r \in Requests |-> IF r = Caller THEN "validate" ELSE "idle"]
    /\ \E data \in TestRawDatas :
          frame = [r \in Requests |-> IF r = Caller THEN [NoFrame EXCEPT !.raw_data = data]
                                      ELSE NoFrame]

\* the i-th call: enhancer.fn(resume_data.dict()), reached when extract_resume
\* returned and no earlier call raised
TestCall(i) ==
    /\ pc[Caller] = "respond"
    /\ frame[Caller].exc = ""
    /\ IF i = 1 THEN result.fn = ""
       ELSE result.fn = TestCalls[i - 1] /\ result.ret.ok
    /\ LET resume_data == ToDict(frame[Caller].resume_data)
           fn == TestCalls[i]
       IN result' = [ fn   |-> fn,
                      prev |-> result.fn,
                      ret  |-> IF CallRaises(fn, resume_data)
                               THEN Invalid("TypeError or AttributeError")
                               ELSE Valid(Returned(fn, [NoPassed EXCEPT !.resume = resume_data],
                                                   enhancer)) ]
    /\ UNCHANGED <<serverVars, enhancer, passed, given>>

NextTest ==
    \/ Validate(Caller)
    \/ \E i \in 1..Len(TestCalls) : TestCall(i)

SpecTest == InitTest /\ [][NextTest]_vars


(***************************************************************************)
(* Properties of POST /extract (specification Spec).                       *)
(***************************************************************************)
\* the requests whose handler is past the filename check
Piped(r) == r \in running /\ EndsWith(req[r].filename, <<".", "p", "d", "f">>)

\* the handler of r has produced its response and not yet returned
Answered(r) == pc[r] = "sent"

\* C1: an upload whose filename does not end with '.pdf' is answered with
\* HTTP 400 'Only PDF files are supported'; no temporary file was created and
\* no step of the pipeline (text extraction, LLM call, validation) was started.
C1_NonPdfRejected ==
    \A r \in running :
        ~EndsWith(req[r].filename, <<".", "p", "d", "f">>)
        => /\ Answered(r)
           /\ response[r] = [status |-> 400, detail |-> "Only PDF files are supported", body |-> PyNone]
           /\ log[r] = NoLog
           /\ frame[r] = NoFrame
           /\ uploads = {}

C1_Witness ==
    \E r \in Requests :
        /\ Answered(r)
        /\ req[r].filename = <<"a", ".", "P", "D", "F">>
        /\ response[r].status = 400

\* C2: for an upload that passes the filename check the handler ends in one
\* of two ways: extract_resume returned and the response is 200 with the
\* dictionary form of the validated ResumeData; or a step raised and the
\* response is 500 whose detail is the message of that exception.  A raised
\* exception always reaches the handler's except clause.
C2_TwoOutcomes ==
    \A r \in Requests :
        Piped(r) =>
            /\ frame[r].exc # "" => pc[r] \in {"respond", "sent"}
            /\ Answered(r) =>
                \/ /\ frame[r].exc = ""
                   /\ frame[r].resume_data.t = "model"
                   /\ log[r].trace[Len(log[r].trace)] = "validate_done"
                   /\ response[r] = [status |-> 200, detail |-> "",
                                     body |-> ToDict(frame[r].resume_data)]
                   /\ response[r].body.t = "dict"
                \/ /\ frame[r].exc # ""
                   /\ log[r].trace[Len(log[r].trace)] # "validate_done"
                   /\ response[r] = [status |-> 500, detail |-> frame[r].exc, body |-> PyNone]

C2_Witness ==
    \E r \in Requests :
        /\ Answered(r)
        /\ response[r].status = 500
        /\ response[r].detail = "ValidationError: personal_info.name: field required"
        /\ log[r].trace = <<"text", "text_done", "llm", "llm_done", "validate">>

\* C3: the temporary copy of an accepted upload is created exactly once, it
\* exists while the pipeline runs and is deleted when the handler has
\* answered, whether extraction returned or raised; when no handler runs, no
\* temporary copy exists and the server holds no record, response or local.
C3_TempCopyDeleted ==
    /\ \A r \in Requests :
        Piped(r) =>
            /\ log[r].created = 1
            /\ frame[r].tmp_path # 0
            /\ (frame[r].tmp_path \in uploads) <=> ~Answered(r)
    /\ Cardinality(uploads) <= Cardinality(running)
    /\ running = {} =>
            /\ uploads = {}
            /\ \A r \in Requests :
                frame[r] = NoFrame /\ response[r] = NoResponse /\ req[r] = NoReq

C3_Witness ==
    \E r \in Requests :
        /\ Answered(r)
        /\ response[r].status = 500
        /\ log[r].created = 1
        /\ frame[r].tmp_path \notin uploads

(***************************************************************************)
(* Properties of extract_text_from_pdf and extract_resume (Spec).          *)
(***************************************************************************)
RECURSIVE JoinPages(_)
\* the logged page texts, each followed by a newline, in the order logged
JoinPages(ps) ==
    IF ps = <<>> THEN <<>> ELSE ps[1].text \o <<0>> \o JoinPages(Tail(ps))

\* C6: pages are processed one at a time in page order; the page image is
\* written and the OCR call made exactly for the pages whose stripped text
\* layer has fewer than 50 characters; the texts of the pages are joined in
\* page order, and cleaned only after the last page.
C6_OcrIffShortLayer ==
    \A r \in Requests :
        LET ps == log[r].pages
            layer(i) == req[r].pdf.pages[i].layer
            short(i) == TextLen(Strip(layer(i))) < 50
        IN /\ Len(ps) <= Len(req[r].pdf.pages)
           /\ \A i \in 1..Len(ps) :
                /\ ps[i].n = i - 1
                /\ ps[i].img <=> short(i)
                /\ (i < Len(ps) \/ pc[r] # "ocr") => (ps[i].ocr <=> short(i))
                /\ ~short(i) => ps[i].text = layer(i)
           /\ pc[r] = "page" => /\ frame[r].page_num = Len(ps)
                                /\ frame[r].text = JoinPages(ps)
           /\ pc[r] = "ocr" => /\ frame[r].page_num = Len(ps) - 1
                               /\ frame[r].text = JoinPages(SubSeq(ps, 1, Len(ps) - 1))
           /\ frame[r].doc = "closed" =>
                /\ Len(ps) = Len(req[r].pdf.pages)
                /\ frame[r].text = clean_text(JoinPages(ps))

C6_Witness ==
    \E r \in Requests :
        /\ frame[r].doc = "closed"
        /\ Len(log[r].pages) = 2
        /\ log[r].pages[1].ocr /\ log[r].pages[1].img
        /\ ~log[r].pages[2].ocr /\ ~log[r].pages[2].img
        /\ TextLen(Strip(req[r].pdf.pages[1].layer)) = 49
        /\ TextLen(Strip(req[r].pdf.pages[2].layer)) = 50

IsPrefix(a, b) == Len(a) <= Len(b) /\ SubSeq(b, 1, Len(a)) = a

\* C7: extract_resume runs text extraction, LLM extraction and validation in
\* that order, each starting after the one before it returned; when the
\* cleaned text has fewer than 100 characters it raises ValueError('Could
\* not extract sufficient text from PDF') and the LLM is never called.
C7_StepsInOrder ==
    \A r \in Requests :
        /\ IsPrefix(log[r].trace,
                    <<"text", "text_done", "llm", "llm_done", "validate", "validate_done">>)
        /\ log[r].chats # <<>> => IsPrefix(<<"text", "text_done", "llm">>, log[r].trace)
        /\ pc[r] = "llm" => Len(log[r].trace) = 3
        /\ pc[r] = "validate" => Len(log[r].trace) = 4
        /\ (frame[r].doc = "closed" /\ TextLen(Strip(frame[r].text)) < 100) =>
                /\ frame[r].exc = "Could not extract sufficient text from PDF"
                /\ pc[r] \in {"respond", "sent"}
                /\ log[r].chats = <<>>
                /\ log[r].trace = <<"text", "text_done">>
        /\ (frame[r].doc = "closed" /\ TextLen(Strip(frame[r].text)) >= 100) =>
                frame[r].exc # "Could not extract sufficient text from PDF"

C7_Witness ==
    \E r \in Requests :
        /\ Answered(r)
        /\ response[r] = [status |-> 500, detail |-> "Could not extract sufficient text from PDF",
                          body |-> PyNone]
        /\ TextLen(frame[r].text) = 55
        /\ log[r].chats = <<>>

\* C8: the handling of two requests never interleaves: at most one handler is
\* between its entry and its return, every other request is idle or waiting,
\* and no two extractions hold the same temp_page_<n>.png at once.
C8_NoInterleaving ==
    /\ Cardinality(running) <= 1
    /\ \A r \in Requests : r \notin running => pc[r] \in {"idle", "queued"}
    /\ \A r1, r2 \in Requests :
        (r1 # r2 /\ pc[r1] = "ocr" /\ pc[r2] = "ocr") => frame[r1].page_num # frame[r2].page_num
    /\ Cardinality({r \in Requests : frame[r].tmp_path \in uploads}) = Cardinality(uploads)

C8_Witness ==
    \E r1, r2 \in Requests :
        /\ pc[r1] = "ocr"
        /\ frame[r1].page_num \in images
        /\ pc[r2] = "queued"


(***************************************************************************)
(* Properties of extract_with_llm and fix_json_errors (specification       *)
(* SpecLlm).                                                               *)
(***************************************************************************)
\* the call of extract_with_llm is over: it returned or it raised
LlmCallEnded == pc[Caller] \in {"validate", "respond"}

\* the entries of the chat log are all of this kind
AllAttempts(kind) ==
    \A i \in 1..Len(log[Caller].chats) : log[Caller].chats[i].kind = kind

\* C4: one call of extract_with_llm(text, max_retries) with max_retries >= 1
\* calls ollama.chat at least once and at most max_retries times, every time
\* with the prompt built from text; no call follows an answer whose cleaned text
\* parsed, and the call whose answer parsed ends the function, which returns
\* that parse.
C4_BoundedRetries ==
    LET f == frame[Caller]
        chats == log[Caller].chats
        n == Len(chats)
    IN (pc[Caller] \in {"llm", "validate", "respond"} /\ f.max_retries >= 1) =>
        /\ n <= f.max_retries
        /\ LlmCallEnded => n >= 1
        /\ \A i \in 1..n : chats[i].prompt = <<"extraction-prompt", f.text>>
        /\ \A i \in 1..(n - 1) : chats[i].kind # "parsed"
        /\ (n >= 1 /\ chats[n].kind = "parsed") =>
              /\ pc[Caller] = "validate"
              /\ f.raw_data = json_loads(clean_json_response(log[Caller].last_content)).val
        /\ (LlmCallEnded /\ n < f.max_retries) => chats[n].kind = "parsed"

\* a call with max_retries 3 returned the parse of its second answer
C4_Witness ==
    /\ pc[Caller] = "validate"
    /\ frame[Caller].max_retries = 3
    /\ Len(log[Caller].chats) = 2
    /\ log[Caller].chats[1].kind = "json_error"
    /\ log[Caller].chats[2].kind = "parsed"
    /\ frame[Caller].raw_data = PyDict(<<>>, <<>>)

\* what C5 says fix_json_errors returns for json_text: the parse of the text
\* with ' replaced by " and the commas before } and ] removed, or the placeholder
RepairedOrPlaceholder(json_text) ==
    LET repaired == SubTrailingComma(SubTrailingComma(ReplaceQuotes(json_text), RBrace), RBrack)
        parsed == json_loads(repaired)
    IN IF parsed.ok
       THEN parsed.val
       ELSE PyDict(<<"personal_info", "experience", "education", "skills">>,
                   << PyDict(<<"name">>, <<PyStr("Error parsing resume")>>),
                      PyList(<<>>),
                      PyList(<<>>),
                      PyDict(<<"technical", "soft", "languages", "tools">>,
                             <<PyList(<<>>), PyList(<<>>), PyList(<<>>), PyList(<<>>)>>) >>)

C9_AtsScoreBounded ==
    result.fn = "calculate_ats_score" =>
        LET r == result.ret.value
            b == r.breakdown
        IN /\ r.max_score = 100
           /\ r.total_score = b.personal_info + b.experience + b.education + b.skills + b.keywords
           /\ r.percentage = 100 * r.total_score
           /\ b.personal_info \in {0, 5, 10, 15, 20}
           /\ b.experience \in {0, 10, 20, 30}
           /\ b.education \in {0, 10, 15}
           /\ b.skills \in {0, 10, 20}
           /\ b.keywords \in {0, 5, 10, 15}
           /\ 0 <= r.total_score
           /\ r.total_score <= 100

\* a resume that scores the maximum in every component
C9_Witness ==
    /\ result.fn = "calculate_ats_score"
    /\ result.ret.value.breakdown =
          [personal_info |-> 20, experience |-> 30, education |-> 15, skills |-> 20, keywords |-> 15]
    /\ result.ret.value.total_score = 100

\* C10: whatever analysis functions of ResumeEnhancer have been called, the
\* resume dictionaries and the list passed to them are as the caller built
\* them and the attributes of the instance are as __init__ set them; so what a
\* call returns is what it returns on the objects as built, whichever calls
\* came before it.
C10_Stateless ==
    passed # NoPassed =>
        /\ passed = given.objects
        /\ enhancer = given.self
        /\ result.fn # "" => result.ret = Returned(result.fn, given.objects, given.self)

\* calculate_ats_score called after extract_achievements on a resume with
\* experience
C10_Witness ==
    /\ result.fn = "calculate_ats_score"
    /\ result.prev = "extract_achievements"
    /\ passed.resume = given.objects.resume
    /\ DictHas(passed.resume, "experience")
    /\ result.ret.value.total_score = 75


(***************************************************************************)
(* Properties of validate_and_enhance (specification SpecVal).             *)
(***************************************************************************)
\* validate_and_enhance returned a record
Validated ==
    /\ pc[Caller] = "respond"
    /\ frame[Caller].exc = ""
    /\ frame[Caller].resume_data.t = "model"

\* validate_and_enhance raised
ValidationRaised == pc[Caller] = "respond" /\ frame[Caller].exc # ""

\* the experience entries of the returned record, in order
ReturnedExperience == DictGet(frame[Caller].resume_data, "experience", PyList(<<>>)).items

\* the experience entries of the raw dictionary, in order
RawExperienceList == DictGet(frame[Caller].raw_data, "experience", PyList(<<>>)).items

\* the place of an end date in time, 0 for an end date that names no time
DateRank(end_date) ==
    CASE end_date = PyStr("2019")    -> 2019
      [] end_date = PyStr("2021")    -> 2021
      [] end_date = PyStr("Present") -> 9999
      [] OTHER                       -> 0

\* entry a ended later than entry b
MoreRecent(a, b) ==
    LET ra == DateRank(DictGet(a, "end_date", PyNone))
        rb == DateRank(DictGet(b, "end_date", PyNone))
    IN ra > 0 /\ rb > 0 /\ ra > rb

\* C11: validate_and_enhance sorts the experience entries by date, most recent
\* first: in the returned record no experience entry is followed by an entry
\* that is more recent than it.
C11_SortedByDate ==
    Validated =>
        \A i \in 1..Len(ReturnedExperience), j \in 1..Len(ReturnedExperience) :
            i < j => ~MoreRecent(ReturnedExperience[j], ReturnedExperience[i])

\* the jobs 2018-2019 and 2020-2021, in this order, came back in this order
C11_Unsorted ==
    /\ Validated
    /\ Len(RawExperienceList) = 2
    /\ DictGet(RawExperienceList[1], "end_date", PyNone) = PyStr("2019")
    /\ DictGet(RawExperienceList[2], "end_date", PyNone) = PyStr("2021")
    /\ Len(ReturnedExperience) = 2
    /\ DictGet(ReturnedExperience[1], "end_date", PyNone) = PyStr("2019")
    /\ DictGet(ReturnedExperience[2], "end_date", PyNone) = PyStr("2021")


\* the raw dictionary has no 'personal_info' and nothing else is wrong with it:
\* given a personal_info with a name it validates
LacksOnlyPersonalInfo(data) ==
    /\ data.t = "dict"
    /\ ~DictHas(data, "personal_info")
    /\ validate_and_enhance(DictSet(data, "personal_info",
                                    PyDict(<<"name">>, <<PyStr("Ann")>>))).ok

\* C12: validate_and_enhance ensures all required fields exist: for a raw
\* dictionary from the LLM that lacks 'personal_info' it supplies the missing
\* field so that the construction of the ResumeData record succeeds instead of
\* failing validation.
C12_MissingPersonalInfoSupplied ==
    (pc[Caller] = "respond" /\ LacksOnlyPersonalInfo(frame[Caller].raw_data)) => Validated

\* {"summary": "x"} was given a personal_info of {} and failed on the missing name
C12_NameRequired ==
    /\ ValidationRaised
    /\ frame[Caller].raw_data = WithKey(EmptyDict, "summary", PyStr("x"))
    /\ frame[Caller].exc = "ValidationError: personal_info.name: field required"


(***************************************************************************)
(* Properties of the analysis of an extracted record (specification        *)
(* SpecTest).                                                              *)
(***************************************************************************)
\* C13: for every ResumeData record that extract_resume can return, the
\* dictionary form of the record (optional fields possibly null, list fields
\* possibly empty) is accepted by calculate_ats_score, generate_summary and
\* suggest_improvements: each of the three returns a result without raising.
C13_AnalysisAccepts ==
    /\ Validated =>
          \A i \in 1..Len(TestCalls) :
              ~CallRaises(TestCalls[i], ToDict(frame[Caller].resume_data))
    /\ result.fn # "" => result.ret.ok

\* a record with nothing but a name (summary null, all lists empty) went
\* through the three calls
C13_Witness ==
    /\ Validated
    /\ frame[Caller].raw_data = Resume(PyDict(<<"name">>, <<PyStr("Ann")>>), Absent, Absent, Absent)
    /\ DictGet(frame[Caller].resume_data, "summary", PyStr("")) = PyNone
    /\ ReturnedExperience = <<>>
    /\ result.fn = "suggest_improvements"
    /\ result.prev = "generate_summary"
    /\ result.ret.ok


(***************************************************************************)
(* Further properties of extract_with_llm (specification SpecLlm).         *)
(***************************************************************************)
\* all max_retries attempts were made and the last one had this kind
LastAttemptWas(kind) ==
    /\ LlmCallEnded
    /\ frame[Caller].max_retries >= 1
    /\ Len(log[Caller].chats) = frame[Caller].max_retries
    /\ log[Caller].chats[Len(log[Caller].chats)].kind = kind

C14_RepairAfterErrors ==
    /\ LastAttemptWas("json_error")
    /\ frame[Caller].max_retries = 3
    /\ log[Caller].chats[1].kind = "error"
    /\ log[Caller].chats[2].kind = "error"
    /\ log[Caller].last_content = RespRepairable
    /\ frame[Caller].raw_data =
          PyDict(<<"personal_info">>, << PyDict(<<"name">>, <<PyStr("Bob")>>) >>)


(***************************************************************************)
(* Further properties of POST /extract (specification Spec).               *)
(***************************************************************************)
\* every attempt of request r ended in a JSON parse error and the last
\* response cannot be repaired
AllUnrepairable(r) ==
    /\ frame[r].max_retries >= 1
    /\ Len(log[r].chats) = frame[r].max_retries
    /\ \A i \in 1..Len(log[r].chats) : log[r].chats[i].kind = "json_error"
    /\ ~FixAttempt(clean_json_response(log[r].last_content)).ok

\* the name in the personal_info of a record or of its dictionary form
NameOf(record) == DictGet(DictGet(record, "personal_info", EmptyDict), "name", PyNone)

\* C15: the placeholder record returned by fix_json_errors always passes
\* validate_and_enhance, so when all LLM attempts yield unrepairable JSON,
\* extract_resume returns a ResumeData whose name is 'Error parsing resume' and
\* POST /extract answers with a success response carrying that record rather
\* than with an HTTP error response.
C15_PlaceholderAnswered ==
    /\ validate_and_enhance(ErrorPlaceholder).ok
    /\ \A r \in Requests :
          (pc[r] \in {"respond", "sent"} /\ AllUnrepairable(r)) =>
              /\ frame[r].exc = ""
              /\ frame[r].raw_data = ErrorPlaceholder
              /\ NameOf(frame[r].resume_data) = PyStr("Error parsing resume")
              /\ Answered(r) =>
                    /\ response[r].status = 200
                    /\ response[r].body = ToDict(frame[r].resume_data)
                    /\ NameOf(response[r].body) = PyStr("Error parsing resume")

\* three answers in prose: the client got 200 and the placeholder record
C15_Witness ==
    \E r \in Requests :
        /\ Answered(r)
        /\ AllUnrepairable(r)
        /\ frame[r].max_retries = 3
        /\ log[r].last_content = RespProse
        /\ response[r].status = 200
        /\ NameOf(response[r].body) = PyStr("Error parsing resume")
        /\ DictGet(response[r].body, "experience", PyNone) = PyList(<<>>)


\* C16: every value that extract_with_llm returns without raising (with
\* max_retries >= 1) is a JSON object (a dictionary), as its return type Dict
\* declares, for every possible LLM response text; it never returns a list,
\* string, number or null to validate_and_enhance.
C16_ReturnsDict ==
    (pc[Caller] = "validate" /\ frame[Caller].max_retries >= 1) =>
        frame[Caller].raw_data.t = "dict"

\* the answer [1] parsed at the first attempt and the list was returned
C16_ListReturned ==
    /\ pc[Caller] = "validate"
    /\ frame[Caller].max_retries = 3
    /\ Len(log[Caller].chats) = 1
    /\ log[Caller].last_content = RespList
    /\ frame[Caller].raw_data = PyList(<<PyNum("1")>>)


(***************************************************************************)
(* Properties of clean_json_response (specification SpecClean).            *)
(***************************************************************************)
\* the response content without its code-fence markers
FenceStripped == SubFence(SubJsonFence(log[Caller].last_content))

\* the text contains the token
Contains(s, tok) == \E i \in 1..Len(s) : s[i] = tok

\* c is the part of t from its first '{' to its last '}', the '{' coming first
BraceSlice(t, c) ==
    \E i \in 1..Len(t), j \in 1..Len(t) :
        /\ i < j
        /\ t[i] = LBrace /\ \A k \in 1..(i - 1) : t[k] # LBrace
        /\ t[j] = RBrace /\ \A k \in (j + 1)..Len(t) : t[k] # RBrace
        /\ c = SubSeq(t, i, j)

\* the last '}' of t comes before its first '{'
BracesReversed(t) ==
    \E i \in 1..Len(t), j \in 1..Len(t) :
        /\ j < i
        /\ t[i] = LBrace /\ \A k \in 1..(i - 1) : t[k] # LBrace
        /\ t[j] = RBrace /\ \A k \in (j + 1)..Len(t) : t[k] # RBrace

\* C17 as stated: clean_json_response first removes markdown code-fence
\* markers; then, whenever the remaining text contains both a '{' and a '}',
\* its result is the substring from the first '{' to the last '}' inclusive,
\* so the result begins with '{' and ends with '}'; when either character is
\* absent the fence-stripped text is returned unchanged.
C17_BeginsAndEndsWithBrace ==
    pc[Caller] = "cleaned" =>
        LET t == FenceStripped
            c == frame[Caller].json_text
        IN /\ ~Contains(t, Fence)
           /\ IF Contains(t, LBrace) /\ Contains(t, RBrace)
              THEN c # <<>> /\ c[1] = LBrace /\ c[Len(c)] = RBrace
              ELSE c = t

\* C17 amended: clean_json_response first removes the code-fence markers; when
\* the first '{' of the remaining text comes before its last '}' the result is
\* the substring from that '{' to that '}' inclusive, which begins with '{' and
\* ends with '}'; when both characters are present but the last '}' comes
\* before the first '{' the result is the empty string; when either character
\* is absent the fence-stripped text is returned unchanged.
C17_SliceOrEmpty ==
    pc[Caller] = "cleaned" =>
        LET t == FenceStripped
            c == frame[Caller].json_text
        IN /\ ~Contains(t, Fence)
           /\ CASE ~(Contains(t, LBrace) /\ Contains(t, RBrace)) -> c = t
                [] BracesReversed(t) -> c = <<>>
                [] OTHER -> BraceSlice(t, c) /\ c[1] = LBrace /\ c[Len(c)] = RBrace

\* the fenced answer was cut down to its object
C17_Witness ==
    /\ pc[Caller] = "cleaned"
    /\ log[Caller].last_content = RespFenced
    /\ Len(frame[Caller].json_text) = Len(RespFenced) - 5
    /\ frame[Caller].json_text[1] = LBrace
    /\ frame[Caller].json_text[Len(frame[Caller].json_text)] = RBrace

\* "} {" was cleaned to the empty string
C17_ReversedBraces ==
    /\ pc[Caller] = "cleaned"
    /\ log[Caller].last_content = RespReversed
    /\ frame[Caller].json_text = <<>>


(***************************************************************************)
(* Further properties of validate_and_enhance (specification SpecVal).     *)
(***************************************************************************)
\* the end_date of an entry of the returned record or of the raw list
EndDate(x) == DictGet(x, "end_date", PyNone)

\* C18: in the record returned by validate_and_enhance, every experience entry
\* whose end_date is 'Present' precedes every experience entry whose end_date
\* is not 'Present', for every raw experience list (including raw end dates
\* 'present', 'current', 'now' in any letter case, an absent end_date and a
\* null end_date).
C18_PresentFirst ==
    Validated =>
        \A i \in 1..Len(ReturnedExperience), j \in 1..Len(ReturnedExperience) :
            (EndDate(ReturnedExperience[i]) = PyStr("Present")
                /\ EndDate(ReturnedExperience[j]) # PyStr("Present")) => i < j

\* the raw list [ended 2019, ends 'present'] came back in this order, the
\* second entry now ending at 'Present'
C18_LowerCaseNotFirst ==
    /\ Validated
    /\ Len(RawExperienceList) = 2
    /\ EndDate(RawExperienceList[1]) = PyStr("2019")
    /\ EndDate(RawExperienceList[2]) = PyStr("present")
    /\ Len(ReturnedExperience) = 2
    /\ EndDate(ReturnedExperience[1]) = PyStr("2019")
    /\ EndDate(ReturnedExperience[2]) = PyStr("Present")

\* an entry without end_date was sorted as 'Present' and is stored with a null
\* end_date, ahead of an entry that ends at 'Present'
C18_AbsentSortedFirst ==
    /\ Validated
    /\ Len(RawExperienceList) = 2
    /\ ~DictHas(RawExperienceList[1], "end_date")
    /\ EndDate(RawExperienceList[2]) = PyStr("Present")
    /\ Len(ReturnedExperience) = 2
    /\ EndDate(ReturnedExperience[1]) = PyNone
    /\ EndDate(ReturnedExperience[2]) = PyStr("Present")


\* 'present', 'current' and 'now' in the letter cases of the samples
PresentWords ==
    { "present", "Present", "PRESENT", "PreSent", "current", "Current", "CURRENT", "cURRENT",
      "now", "Now", "NOW", "nOw" }

\* what C19 says is stored for a raw date
StoredDate(raw) ==
    IF raw.t = "str" /\ raw.s \in PresentWords THEN PyStr("Present") ELSE raw

\* the returned entry y is the raw entry x with its two dates stored
StoredFrom(x, y) ==
    /\ DictGet(y, "company", PyNone) = DictGet(x, "company", PyNone)
    /\ DictGet(y, "start_date", PyNone) = StoredDate(DictGet(x, "start_date", PyNone))
    /\ DictGet(y, "end_date", PyNone) = StoredDate(DictGet(x, "end_date", PyNone))

\* C19: for every Experience record, a start_date or end_date that equals
\* 'present', 'current' or 'now' in any letter case is stored as exactly
\* 'Present', and any other value (including null) is stored unchanged.
C19_DatesNormalised ==
    Validated =>
        /\ Len(ReturnedExperience) = Len(RawExperienceList)
        /\ \A i \in 1..Len(ReturnedExperience) :
              \E j \in 1..Len(RawExperienceList) :
                  StoredFrom(RawExperienceList[j], ReturnedExperience[i])
        /\ \A j \in 1..Len(RawExperienceList) :
              \E i \in 1..Len(ReturnedExperience) :
                  StoredFrom(RawExperienceList[j], ReturnedExperience[i])

\* 2021 to 'CURRENT' is stored as 2021 to 'Present', a null end_date as null
C19_Witness ==
    /\ Validated
    /\ Len(RawExperienceList) = 2
    /\ DictGet(RawExperienceList[1], "start_date", PyNone) = PyStr("2021")
    /\ EndDate(RawExperienceList[1]) = PyStr("CURRENT")
    /\ DictHas(RawExperienceList[2], "end_date")
    /\ EndDate(RawExperienceList[2]) = PyNone
    /\ DictGet(ReturnedExperience[1], "start_date", PyNone) = PyStr("2021")
    /\ EndDate(ReturnedExperience[1]) = PyStr("Present")
    /\ EndDate(ReturnedExperience[2]) = PyNone


\* the email of the personal_info of the raw dictionary, null when there is none
RawEmail == DictGet(DictGet(frame[Caller].raw_data, "personal_info", EmptyDict), "email", PyNone)

\* the email of the returned record
ReturnedEmail == DictGet(DictGet(frame[Caller].resume_data, "personal_info", EmptyDict), "email", PyNone)

\* the strings of the samples that contain the character '@'
ContainsAt(x) == x \in {"a@b.c", "@", "john.doe@email.com"}

\* C20: in every record returned by validate_and_enhance, personal_info.email
\* is either null, empty, or a string containing '@': a non-empty raw email
\* without '@' is replaced by null, and a raw email containing '@' is kept
\* unchanged.
C20_EmailNullEmptyOrAt ==
    Validated =>
        /\ \/ ReturnedEmail = PyNone
           \/ ReturnedEmail = PyStr("")
           \/ ReturnedEmail.t = "str" /\ ContainsAt(ReturnedEmail.s)
        /\ (RawEmail.t = "str" /\ RawEmail.s # "" /\ ~ContainsAt(RawEmail.s)) => ReturnedEmail = PyNone
        /\ (RawEmail.t = "str" /\ ContainsAt(RawEmail.s)) => ReturnedEmail = RawEmail

\* the raw email 'ann' was replaced by null
C20_Witness ==
    /\ Validated
    /\ RawEmail = PyStr("ann")
    /\ ReturnedEmail = PyNone

\* the raw email 'a@b.c' was kept
C20_Kept ==
    /\ Validated
    /\ RawEmail = PyStr("a@b.c")
    /\ ReturnedEmail = PyStr("a@b.c")


(***************************************************************************)
(* Further properties of extract_text_from_pdf (specification Spec).       *)
(***************************************************************************)
\* the call of extract_text_from_pdf made for r is over: it returned or raised
TextCallEnded(r) ==
    /\ log[r].trace # <<>>
    /\ pc[r] \in {"llm", "validate", "respond", "sent"}

\* C21: after extract_text_from_pdf ends, whether it returns or raises, no
\* temporary page image temp_page_<n>.png written by it remains on disk and
\* the opened PDF document has been closed; at any moment during the call at
\* most one such temporary image exists.
C21_NoImageLeft ==
    /\ \A r \in Requests :
          TextCallEnded(r) =>
              /\ \A i \in 1..Len(log[r].pages) : log[r].pages[i].img => log[r].pages[i].n \notin images
              /\ frame[r].doc # "open"
    /\ \A r \in Requests :
          pc[r] \in {"page", "ocr"} =>
              Cardinality({i \in 1..Len(log[r].pages) :
                              log[r].pages[i].img /\ log[r].pages[i].n \in images}) <= 1

\* OCR is None: the call raised at the page without a text layer, its image
\* temp_page_1.png is still there and the document is still open
C21_ImageLeftOpen ==
    \E r \in Requests :
        /\ ocr = "none"
        /\ pc[r] = "respond"
        /\ frame[r].exc = "AttributeError: 'NoneType' object has no attribute 'ocr'"
        /\ Len(log[r].pages) = 2
        /\ log[r].pages[2].img
        /\ 1 \in images
        /\ frame[r].doc = "open"


\* every page of the PDF has a text layer of at least 50 stripped characters
AllPagesHaveText(pdf) ==
    \A i \in 1..Len(pdf.pages) : TextLen(Strip(pdf.pages[i].layer)) >= 50

RECURSIVE JoinLayers(_)
\* the text layers of the pages, each followed by a newline, in page order
JoinLayers(pages) ==
    IF pages = <<>> THEN <<>> ELSE pages[1].layer \o <<0>> \o JoinLayers(Tail(pages))

\* C22: when OCR initialization failed at import time (ocr = None),
\* extract_text_from_pdf still returns the cleaned text of every PDF all of
\* whose pages have a text layer of at least 50 stripped characters, and a
\* page that needs OCR makes the call end with an error instead of being
\* skipped or returned with partial text.
C22_WithoutOcr ==
    ocr = "none" =>
        \A r \in Requests :
            (TextCallEnded(r) /\ req[r].pdf.readable) =>
                IF AllPagesHaveText(req[r].pdf)
                THEN /\ frame[r].doc = "closed"
                     /\ frame[r].text = clean_text(JoinLayers(req[r].pdf.pages))
                     /\ frame[r].exc # "AttributeError: 'NoneType' object has no attribute 'ocr'"
                ELSE /\ frame[r].doc = "open"
                     /\ frame[r].exc = "AttributeError: 'NoneType' object has no attribute 'ocr'"
                     /\ pc[r] \in {"respond", "sent"}
                     /\ log[r].chats = <<>>
                     /\ log[r].trace = <<"text">>

\* without OCR, the PDF of one page with 55 characters was returned as text and
\* went on to the LLM
C22_Witness ==
    \E r \in Requests :
        /\ ocr = "none"
        /\ pc[r] = "llm"
        /\ req[r].pdf = Pdf(<< Page(<<60, 0, 50>>, <<>>) >>)
        /\ frame[r].doc = "closed"
        /\ frame[r].text = clean_text(<<60, 0, 50, 0>>)

\* without OCR, a page with text followed by a page without text: the call
\* raised, the text of the first page was not returned
C22_SecondPageRaises ==
    \E r \in Requests :
        /\ ocr = "none"
        /\ pc[r] = "sent"
        /\ req[r].pdf = Pdf(<< Page(<<55>>, <<>>), Page(<<>>, <<>>) >>)
        /\ response[r].status = 500
        /\ response[r].detail = "AttributeError: 'NoneType' object has no attribute 'ocr'"
        /\ log[r].chats = <<>>


(***************************************************************************)
(* Properties of suggest_improvements (specification SpecSug).             *)
(***************************************************************************)
\* the resume has nothing to improve, in the words of C23
NothingToImprove(resume) ==
    LET personal_info == DictGet(resume, "personal_info", EmptyDict)
        experience == DictGet(resume, "experience", PyList(<<>>))
        education == DictGet(resume, "education", PyList(<<>>))
        skills == DictGet(resume, "skills", EmptyDict)
        NonEmpty(v) == v.t = "str" /\ v.s # ""
        Skills(k) == Len(DictGet(skills, k, PyList(<<>>)).items)
    IN /\ NonEmpty(DictGet(personal_info, "email", PyNone))
       /\ NonEmpty(DictGet(personal_info, "phone", PyNone))
       /\ NonEmpty(DictGet(personal_info, "linkedin", PyNone))
       /\ NonEmpty(DictGet(resume, "summary", PyNone))
       /\ \A i \in 1..Len(experience.items) :
             LET resps == DictGet(experience.items[i], "responsibilities", PyList(<<>>)).items
             IN /\ Len(resps) >= 3
                /\ \E j \in 1..Len(resps) : resps[j].s \in {"Led a team of 5+", "cut costs by 40%"}
       /\ Skills("technical") + Skills("soft") + Skills("languages") + Skills("tools") >= 10
       /\ \A i \in 1..Len(education.items) :
             NonEmpty(DictGet(education.items[i], "end_date", PyNone))

\* the texts of the two suggestions made for an experience entry
ExperienceTexts ==
    {"Add more details to position at", "Add quantifiable achievements for position at"}

\* C23: suggest_improvements returns an empty list if and only if the resume
\* has a non-empty email, phone, linkedin and summary, every experience entry
\* has at least 3 responsibilities of which at least one contains a digit,
\* the four skill lists together hold at least 10 skills, and every education
\* entry has a non-empty end_date; the number of suggestions is at most
\* 5 + 2 * (number of experience entries) + (number of education entries), and
\* a resume with no experience entries receives no experience suggestion.
C23_Suggestions ==
    result.fn = "suggest_improvements" =>
        LET resume == given.objects.resume
            suggestions == result.ret.value
            experience == DictGet(resume, "experience", PyList(<<>>)).items
            education == DictGet(resume, "education", PyList(<<>>)).items
        IN /\ (suggestions = <<>>) <=> NothingToImprove(resume)
           /\ Len(suggestions) <= 5 + 2 * Len(experience) + Len(education)
           /\ experience = <<>> =>
                 \A i \in 1..Len(suggestions) : suggestions[i][1] \notin ExperienceTexts

\* a complete resume with one experience entry of three responsibilities, one
\* of them with a number, got no suggestion
C23_Witness ==
    /\ result.fn = "suggest_improvements"
    /\ result.ret.value = <<>>
    /\ NothingToImprove(given.objects.resume)
    /\ Len(DictGet(given.objects.resume, "experience", PyList(<<>>)).items) = 1
    /\ Len(DictGet(given.objects.resume, "education", PyList(<<>>)).items) = 1

\* a resume without any section got the five general suggestions and no other
C23_FiveSuggestions ==
    /\ result.fn = "suggest_improvements"
    /\ given.objects.resume = EmptyDict
    /\ Len(result.ret.value) = 5

=============================================================================
